---- MODULE Spec2Model ----
(***************************************************************************)
(* Model of SimplePDFBot (src/bot.py): the per-user conversation state     *)
(* machine, the session dictionary user_data, the safe delivery gateway,   *)
(* the message chunker and the message cleanup policy.                     *)
(*                                                                         *)
(* Strings that the code slices or prefix-matches (callback payloads and   *)
(* file names) are sequences of one-character strings, so that data[12:],  *)
(* data[14:], startswith and len are computed as the code computes them.   *)
(***************************************************************************)
EXTENDS Integers, Sequences, FiniteSets, TLC

(***************************************************************************)
(* Conversation states (bot.py line 25) and ConversationHandler.END.       *)
(***************************************************************************)
MAIN_MENU == 0
ANALYZING == 1
UPLOADING == 2
LANGUAGE_SELECTION == 3
END == -1

ConvStates == {MAIN_MENU, ANALYZING, UPLOADING, LANGUAGE_SELECTION}

(***************************************************************************)
(* Bounds of the model.                                                    *)
(***************************************************************************)
MaxSteps == 1
MaxFaults == 1
\* the longest messages list and the largest max_keep cleanup_messages is
\* called with on its own
MaxTracked == 4
MaxKeepCount == 3
\* the number of pieces of the longest text given to sanitize_html
MaxPieces == 3
\* the number of pieces of the longest text given to split_and_send_long_message
MaxRuns == 3
\* the number of updates that arrive while the dispatcher is watched
MaxUpdates == 3
MaxFiles == 3

Users == {"u1", "u2"}

(***************************************************************************)
(* File names (document labels) of the model.  NoneV is Python's None for  *)
(* current_file; the code tests it with "not ...", so the empty string     *)
(* counts as unset as well.                                                *)
(***************************************************************************)
NoneV == <<>>
LabelA == <<"a">>
LabelB == <<"b">>
LabelUA == <<"_", "a">>
LabelUUA == <<"_", "_", "a">>
Labels == {LabelA, LabelB, LabelUA, LabelUUA}

(***************************************************************************)
(* Callback payloads the bot puts on its buttons.                          *)
(***************************************************************************)
P_menu_upload == <<"m", "e", "n", "u", "_", "u", "p", "l", "o", "a", "d">>
P_menu_language == <<"m", "e", "n", "u", "_", "l", "a", "n", "g", "u", "a", "g", "e">>
P_menu_files == <<"m", "e", "n", "u", "_", "f", "i", "l", "e", "s">>
P_menu_analyze == <<"m", "e", "n", "u", "_", "a", "n", "a", "l", "y", "z", "e">>
P_menu_ask == <<"m", "e", "n", "u", "_", "a", "s", "k">>
P_menu_compare == <<"m", "e", "n", "u", "_", "c", "o", "m", "p", "a", "r", "e">>
P_menu_back == <<"m", "e", "n", "u", "_", "b", "a", "c", "k">>
P_analyze_back == <<"a", "n", "a", "l", "y", "z", "e", "_", "b", "a", "c", "k">>
P_analyze_summarize == <<"a", "n", "a", "l", "y", "z", "e", "_", "s", "u", "m", "m", "a", "r", "i", "z", "e">>
P_analyze_key_points == <<"a", "n", "a", "l", "y", "z", "e", "_", "k", "e", "y", "_", "p", "o", "i", "n", "t", "s">>
P_analyze_arguments == <<"a", "n", "a", "l", "y", "z", "e", "_", "a", "r", "g", "u", "m", "e", "n", "t", "s">>
P_analyze_data == <<"a", "n", "a", "l", "y", "z", "e", "_", "d", "a", "t", "a">>
P_compare_execute == <<"c", "o", "m", "p", "a", "r", "e", "_", "e", "x", "e", "c", "u", "t", "e">>
P_compare_general == <<"c", "o", "m", "p", "a", "r", "e", "_", "g", "e", "n", "e", "r", "a", "l">>
P_compare_data == <<"c", "o", "m", "p", "a", "r", "e", "_", "d", "a", "t", "a">>
P_compare_differences == <<"c", "o", "m", "p", "a", "r", "e", "_", "d", "i", "f", "f", "e", "r", "e", "n", "c", "e", "s">>
P_compare_common == <<"c", "o", "m", "p", "a", "r", "e", "_", "c", "o", "m", "m", "o", "n">>
P_lang_en == <<"l", "a", "n", "g", "_", "e", "n">>
P_lang_vi == <<"l", "a", "n", "g", "_", "v", "i">>

PFX_analyze == <<"a", "n", "a", "l", "y", "z", "e", "_">>
PFX_menu == <<"m", "e", "n", "u", "_">>
PFX_compare == <<"c", "o", "m", "p", "a", "r", "e", "_">>
PFX_lang == <<"l", "a", "n", "g", "_">>
PFX_menu_select == <<"m", "e", "n", "u", "_", "s", "e", "l", "e", "c", "t", "_">>
PFX_menu_delete == <<"m", "e", "n", "u", "_", "d", "e", "l", "e", "t", "e", "_">>
PFX_compare_select == <<"c", "o", "m", "p", "a", "r", "e", "_", "s", "e", "l", "e", "c", "t", "_">>

K_differences == <<"d", "i", "f", "f", "e", "r", "e", "n", "c", "e", "s">>
K_common == <<"c", "o", "m", "m", "o", "n">>
K_data == <<"d", "a", "t", "a">>

(***************************************************************************)
(* Python string primitives on character sequences.                        *)
(***************************************************************************)
\* s.startswith(p)
StartsWith(s, p) == Len(p) <= Len(s) /\ SubSeq(s, 1, Len(p)) = p

\* s[n:]
DropFirst(s, n) == SubSeq(s, n + 1, Len(s))

\* s[:n]
TakeFirst(s, n) == SubSeq(s, 1, IF n <= Len(s) THEN n ELSE Len(s))

Digit(d) == CASE d = 0 -> "0" [] d = 1 -> "1" [] d = 2 -> "2" [] d = 3 -> "3"
              [] d = 4 -> "4" [] d = 5 -> "5" [] d = 6 -> "6" [] d = 7 -> "7"
              [] d = 8 -> "8" [] d = 9 -> "9"

\* str(n) for a non-negative integer n
RECURSIVE IntToStr(_)
IntToStr(n) == IF n < 10 THEN <<Digit(n)>>
               ELSE Append(IntToStr(n \div 10), Digit(n % 10))

(***************************************************************************)
(* The files dictionary of a session: a Python dict keeps insertion order, *)
(* so it is a sequence of [name, ref] entries with distinct names.         *)
(***************************************************************************)
RECURSIVE Keys(_)
Keys(d) == IF d = <<>> THEN <<>> ELSE <<d[1].name>> \o Keys(Tail(d))

KeySet(d) == {d[i].name : i \in 1..Len(d)}

HasKey(d, k) == \E i \in 1..Len(d) : d[i].name = k

\* d[k]; KeyError when k is not a key (callers test HasKey first)
GetItem(d, k) == d[CHOOSE i \in 1..Len(d) : d[i].name = k].ref

\* an assignment that always adds an entry, also for a key that exists
AddItem(d, k, v) == Append(d, [name |-> k, ref |-> v])

\* d[k] = v : replaces the value in place, or appends a new key
SetItem(d, k, v) ==
    IF HasKey(d, k)
    THEN [i \in 1..Len(d) |-> IF d[i].name = k THEN [name |-> k, ref |-> v] ELSE d[i]]
    ELSE Append(d, [name |-> k, ref |-> v])

\* del d[k]
RECURSIVE DelItem(_, _)
DelItem(d, k) ==
    IF d = <<>> THEN <<>>
    ELSE IF d[1].name = k THEN Tail(d)
    ELSE <<d[1]>> \o DelItem(Tail(d), k)

\* x in list
InSeq(x, s) == \E i \in 1..Len(s) : s[i] = x

\* list.remove(x): removes the first occurrence
RECURSIVE RemoveFirst(_, _)
RemoveFirst(s, x) ==
    IF s = <<>> THEN <<>>
    ELSE IF s[1] = x THEN Tail(s)
    ELSE <<s[1]>> \o RemoveFirst(Tail(s), x)

VARIABLES
    user_data,    \* self.user_data: user id -> session dict
    conv,         \* ConversationHandler state of each user's conversation
    live,         \* per chat: the bot's messages that still exist, id -> buttons
    nextId,       \* per chat: id the transport gives the next sent message
    nextHandle,   \* handle the backend gives the next uploaded document
    pyhash,       \* hash(file_name) of this process, for long file names
    faults,       \* number of collaborator failures so far
    steps,        \* number of updates handled off the guided runs
    trail,        \* the updates of a guided run handled so far
    ev,           \* the event handled last
    out,          \* what the last handler delivered through the transport
    calls,        \* backend calls made by the last handler
    raised,       \* whether the last handler raised to the dispatcher
    before,       \* the bot as the event handled last found it
    probe         \* the last call of a function made on its own: argument, result

\* the variables of the bot
botvars == <<user_data, conv, live, nextId, nextHandle, pyhash, faults, steps, trail, ev, out,
             calls, raised, before>>

vars == <<botvars, probe>>

\* fn was called with arg and gave res
Probe(fn, arg, res) == [fn |-> fn, arg |-> arg, res |-> res]
NoProbe == Probe("", <<>>, <<>>)


(***************************************************************************)
(* Callback identifiers of file names.                                     *)
(***************************************************************************)
\* _safe_callback_data (hash(file_name) is pyhash[file_name])
_safe_callback_data(file_name) ==
    IF Len(file_name) <= 32 THEN file_name
    ELSE TakeFirst(file_name, 28) \o <<"_">> \o IntToStr(pyhash[file_name] % 10000)

\* the loop of _get_filename_from_id over files.keys(), in dict order
RECURSIVE MatchFilename(_, _)
MatchFilename(names, file_id) ==
    IF names = <<>> THEN NoneV
    ELSE LET filename == names[1]
             safe_id == _safe_callback_data(filename)
         IN  IF file_id = safe_id THEN filename
             ELSE IF Len(file_id) <= Len(safe_id) /\ StartsWith(safe_id, file_id)
                  THEN filename
                  ELSE MatchFilename(Tail(names), file_id)

\* _get_filename_from_id
_get_filename_from_id(files, file_id) ==
    IF HasKey(files, file_id) THEN file_id
    ELSE MatchFilename(Keys(files), file_id)

(***************************************************************************)
(* Sessions.                                                               *)
(***************************************************************************)
\* {"files": {}, "current_file": None, "language": "en", "messages": []};
\* a missing "compare_selection" key reads as [] everywhere (.get(..., []))
NewSession ==
    [files |-> <<>>, current_file |-> NoneV, language |-> "en",
     messages |-> <<>>, compare_selection |-> <<>>]

\* self.user_data[user_id] = {...} when user_id is not in self.user_data
EnsureSession(ud, u) ==
    IF u \in DOMAIN ud THEN ud
    ELSE [x \in DOMAIN ud \cup {u} |-> IF x = u THEN NewSession ELSE ud[x]]

(***************************************************************************)
(* Safe delivery gateway.  A script gives the transport's answer to each   *)
(* attempt of one call: "ok", "parse" (BadRequest: Can't parse entities),  *)
(* "notmod" (BadRequest: Message is not modified), "badreq" (any other     *)
(* BadRequest), "neterr" (a transport error that is not a BadRequest).     *)
(* The result names what was returned or raised and lists the attempts.    *)
(***************************************************************************)
SendOutcomes == {"ok", "parse", "badreq", "neterr"}
EditOutcomes == {"ok", "parse", "notmod", "badreq", "neterr"}

IsBadRequest(a) == a \in {"parse", "notmod", "badreq"}

ExcOf(a) == IF a = "neterr" THEN "neterr" ELSE "badreq"

Try(txt, rich) == [text |-> txt, rich |-> rich]

\* the call returned the message of attempt got
Delivered(tries, got) == [ret |-> "ok", tries |-> tries, err |-> "", got |-> got]

\* the call raised the error err of its last attempt
Propagated(tries, err) == [ret |-> ExcOf(err), tries |-> tries, err |-> err, got |-> 0]

\* the call returned None
Ignored(tries) == [ret |-> "none", tries |-> tries, err |-> "", got |-> 0]

Verbatim == <<Try("verbatim", TRUE)>>
Retried == <<Try("verbatim", TRUE), Try("sanitized", TRUE)>>
Plain == <<Try("verbatim", TRUE), Try("sanitized", TRUE), Try("sanitized", FALSE)>>

\* a retry that drops the markup at once
PlainRetry(sc) ==
    IF sc[2] = "ok" THEN Delivered(<<Try("verbatim", TRUE), Try("sanitized", FALSE)>>, 2)
    ELSE Propagated(<<Try("verbatim", TRUE), Try("sanitized", FALSE)>>, sc[2])

\* lines 243-264: the handling of "Can't parse entities", the same in
\* send_safe_message and in edit_safe_message (lines 288-309)
SanitizedRetry(sc) ==
    IF sc[2] = "ok" THEN Delivered(Retried, 2)
    ELSE IF IsBadRequest(sc[2])
    THEN IF sc[3] = "ok" THEN Delivered(Plain, 3) ELSE Propagated(Plain, sc[3])
    ELSE Propagated(Retried, sc[2])

\* send_safe_message
send_safe_message(sc) ==
    IF sc[1] = "ok" THEN Delivered(Verbatim, 1)
    ELSE IF sc[1] = "parse" THEN SanitizedRetry(sc)
    ELSE Propagated(Verbatim, sc[1])

\* edit_safe_message
edit_safe_message(sc) ==
    IF sc[1] = "ok" THEN Delivered(Verbatim, 1)
    ELSE IF sc[1] = "parse" THEN SanitizedRetry(sc)
    ELSE IF sc[1] = "notmod" THEN Ignored(Verbatim)
    ELSE Propagated(Verbatim, sc[1])

\* what a gateway call can return or raise, over all transport behaviours
SendRets == {send_safe_message(sc).ret : sc \in [1..3 -> SendOutcomes]}
EditRets == {edit_safe_message(sc).ret : sc \in [1..3 -> EditOutcomes]}

\* a transport call that is not made through the gateway
RawRets == {"ok", "badreq", "neterr"}

\* the transport's answer to every attempt to edit a message that is gone
GoneScript == [i \in 1..3 |-> "badreq"]


(***************************************************************************)
(* The run of one handler.  A context threads what the handler has done so *)
(* far: the session dictionary, the chat, the transport's next message id, *)
(* the backend's next handle, the deliveries and backend calls made, the   *)
(* pending exception ("" when none: "badreq" is telegram.error.BadRequest, *)
(* "neterr" any other transport error, "error" any other exception) and    *)
(* the id of the message sent last.  A step is skipped while an exception  *)
(* is pending, which is how the exception propagates.                      *)
(***************************************************************************)
Ctx(u) ==
    [ud |-> user_data, live |-> live[u], nid |-> nextId[u], nh |-> nextHandle,
     out |-> <<>>, calls |-> <<>>, exc |-> "", last |-> 0, ret |-> MAIN_MENU, nf |-> 0]

Msg(op, view, ctl, id) == [op |-> op, view |-> view, ctl |-> ctl, msg |-> id]

\* raise
Raise(c, e) == IF c.exc # "" THEN c ELSE [c EXCEPT !.exc = e]

\* a collaborator fails with exception e
Fail(c, e) == IF c.exc # "" THEN c ELSE [c EXCEPT !.exc = e, !.nf = @ + 1]

\* except ...: the pending exception is handled
Caught(c) == [c EXCEPT !.exc = ""]

\* the chat once message id shows the buttons ctl
Shown(chat, id, ctl) ==
    [x \in DOMAIN chat \cup {id} |-> IF x = id THEN ctl ELSE chat[x]]

\* a message is sent: the transport gives it the next id
Send(c, view, ctl, r) ==
    IF c.exc # "" THEN c
    ELSE IF r = "ok"
    THEN [c EXCEPT !.out = Append(@, Msg("send", view, ctl, c.nid)),
                   !.live = Shown(@, c.nid, ctl),
                   !.last = c.nid,
                   !.nid = @ + 1]
    ELSE Fail(c, r)

\* message m is edited through edit_safe_message; a message that no longer
\* exists cannot be edited, whatever the text ("none": content unchanged)
Edit(c, m, view, ctl, r) ==
    IF c.exc # "" THEN c
    ELSE LET rr == IF m \in DOMAIN c.live THEN r ELSE edit_safe_message(GoneScript).ret
         IN  IF rr \in {"ok", "none"}
             THEN [c EXCEPT !.out = Append(@, Msg("edit", view, ctl, m)),
                            !.live = IF rr = "ok" THEN Shown(@, m, ctl) ELSE @,
                            !.nf = IF rr = "none" THEN @ + 1 ELSE @]
             ELSE IF m \in DOMAIN c.live THEN Fail(c, rr) ELSE Raise(c, rr)

\* query.edit_message_text: an edit that does not go through the gateway
RawEdit(c, m, view, ctl, r) ==
    IF c.exc # "" THEN c
    ELSE LET rr == IF m \in DOMAIN c.live THEN r ELSE "badreq"
         IN  IF rr = "ok"
             THEN [c EXCEPT !.out = Append(@, Msg("edit", view, ctl, m)),
                            !.live = Shown(@, m, ctl)]
             ELSE IF m \in DOMAIN c.live THEN Fail(c, rr) ELSE Raise(c, rr)

\* bot.delete_message
Delete(c, m, r) ==
    IF c.exc # "" THEN c
    ELSE LET rr == IF m \in DOMAIN c.live THEN r ELSE "badreq"
         IN  IF rr = "ok"
             THEN [c EXCEPT !.out = Append(@, Msg("delete", "", {}, m)),
                            !.live = [x \in DOMAIN @ \ {m} |-> @[x]]]
             ELSE IF m \in DOMAIN c.live THEN Fail(c, rr) ELSE Raise(c, rr)

\* query.answer(text): a call of the transport like the others
Answer(c, text, r) ==
    IF c.exc # "" THEN c
    ELSE IF r = "ok" THEN [c EXCEPT !.out = Append(@, Msg("answer", text, {}, 0))]
    ELSE Fail(c, r)

\* return state
Ret(c, st) == IF c.exc # "" THEN c ELSE [c EXCEPT !.ret = st]

\* a call of the AI backend is made
Call(c, rec) == IF c.exc # "" THEN c ELSE [c EXCEPT !.calls = Append(@, rec)]

\* a cleanup list shared by all users: every id goes to the list of u1
SharedCleanupList(c, u, message_id) ==
    IF c.exc # "" THEN c
    ELSE LET ud1 == EnsureSession(c.ud, "u1")
         IN  [c EXCEPT !.ud = [ud1 EXCEPT !["u1"].messages = Append(@, message_id)]]

\* add_message_to_cleanup
add_message_to_cleanup(c, u, message_id) ==
    IF c.exc # "" THEN c
    ELSE LET ud1 == EnsureSession(c.ud, u)
         IN  [c EXCEPT !.ud = [ud1 EXCEPT ![u].messages = Append(@, message_id)]]

\* message = await send(...); self.add_message_to_cleanup(user_id, message.message_id)
TrackLast(c, u) == add_message_to_cleanup(c, u, c.last)

\* self.user_data[user_id] raises KeyError for a user without session
NeedSession(c, u) ==
    IF c.exc = "" /\ u \notin DOMAIN c.ud THEN [c EXCEPT !.exc = "error"] ELSE c

(***************************************************************************)
(* Message cleanup policy.                                                 *)
(***************************************************************************)
DefaultMaxKeep == 3

\* lst[:-k]
SliceToNeg(lst, k) == IF k = 0 THEN <<>>
                      ELSE IF k >= Len(lst) THEN <<>> ELSE SubSeq(lst, 1, Len(lst) - k)

\* lst[-k:]
SliceFromNeg(lst, k) == IF k = 0 THEN lst
                        ELSE IF k >= Len(lst) THEN lst
                        ELSE SubSeq(lst, Len(lst) - k + 1, Len(lst))

\* messages_to_delete of cleanup_messages
messages_to_delete(c, u, max_keep) ==
    IF c.exc # "" \/ u \notin DOMAIN c.ud THEN <<>>
    ELSE IF Len(c.ud[u].messages) > max_keep
         THEN SliceToNeg(c.ud[u].messages, max_keep) ELSE <<>>

\* except BadRequest: the failed deletion is logged and skipped
SkipBadRequest(c) == IF c.exc = "badreq" THEN Caught(c) ELSE c

\* the deletion loop: another error than BadRequest propagates
RECURSIVE DeleteLoop(_, _, _, _)
DeleteLoop(c, msgs, ds, i) ==
    IF i > Len(msgs) THEN c
    ELSE DeleteLoop(SkipBadRequest(Delete(c, msgs[i], ds[i])), msgs, ds, i + 1)

\* line 543: the list is cut to its last max_keep entries
KeepLast(c, u, msgs, max_keep) ==
    IF c.exc # "" THEN c
    ELSE [c EXCEPT !.ud[u].messages =
             IF Len(msgs) > max_keep THEN SliceFromNeg(msgs, max_keep) ELSE msgs]

\* cleanup_messages
cleanup_messages(c, u, max_keep, ds) ==
    IF c.exc # "" \/ u \notin DOMAIN c.ud THEN c
    ELSE KeepLast(DeleteLoop(c, messages_to_delete(c, u, max_keep), ds, 1),
                  u, c.ud[u].messages, max_keep)

(***************************************************************************)
(* Keyboards: the set of callback payloads on a message's buttons.         *)
(***************************************************************************)
NoKeyboard == {}
BackKeyboard == {P_menu_back}

\* keyboard of show_menu
MenuKeyboard(s) ==
    {P_menu_upload, P_menu_language}
    \cup (IF s.files # <<>>
          THEN {P_menu_files}
               \cup (IF s.current_file # NoneV THEN {P_menu_analyze, P_menu_ask} ELSE {})
               \cup (IF Len(s.files) >= 2 THEN {P_menu_compare} ELSE {})
          ELSE {})

\* keyboard of the menu_files view
FilesKeyboard(s) ==
    {PFX_menu_select \o _safe_callback_data(f) : f \in KeySet(s.files)}
    \cup {PFX_menu_delete \o _safe_callback_data(f) : f \in KeySet(s.files)}
    \cup {P_menu_back}

\* keyboard of the document selection view of the comparison flow
CompareKeyboard(s) ==
    {PFX_compare_select \o _safe_callback_data(f) : f \in KeySet(s.files)}
    \cup {P_compare_execute, P_menu_back}

LanguageKeyboard == {P_lang_en, P_lang_vi, P_menu_back}

AnalyzeKeyboard == {P_analyze_summarize, P_analyze_key_points, P_analyze_arguments,
                    P_analyze_data, P_analyze_back}

CompareTypeKeyboard == {P_compare_general, P_compare_differences, P_compare_common,
                        P_compare_data, P_menu_compare}

UploadedKeyboard == {P_analyze_summarize, P_analyze_key_points, P_menu_ask, P_menu_back}

FollowUpKeyboard == {P_menu_ask, P_menu_back}

(***************************************************************************)
(* show_menu: q is the id of the message whose button was pressed, 0 when  *)
(* the update is not a callback query.                                     *)
(***************************************************************************)
\* a show_menu that drops the BadRequest of the edit and sends nothing
MenuOrNothing(c, u, kb, rs) == IF c.exc = "badreq" THEN Caught(c) ELSE c

\* lines 662-669: when the edit raised BadRequest a new message is sent
MenuOrNew(c, u, kb, rs) ==
    IF c.exc = "badreq" THEN TrackLast(Send(Caught(c), "menu", kb, rs), u) ELSE c

\* lines 596-679: show_menu after its call of cleanup_messages
show_menu_view(c, u, q, ra, re, rs) ==
    IF c.exc # "" THEN c
    ELSE IF q # 0
    THEN MenuOrNew(Edit(Answer(c, "", ra), q, "menu", MenuKeyboard(c.ud[u]), re),
                   u, MenuKeyboard(c.ud[u]), rs)
    ELSE TrackLast(Send(c, "menu", MenuKeyboard(c.ud[u]), rs), u)

show_menu(c, u, q, ds, ra, re, rs) ==
    show_menu_view(NeedSession(cleanup_messages(c, u, DefaultMaxKeep, ds), u), u, q, ra, re,
                   rs)


(***************************************************************************)
(* Texts.  A message text is a string over four kinds of character: "w" (a *)
(* character that is neither white space nor a sentence terminator), "."   *)
(* (one of . ! ?), " " (a space) and "nl" (a newline).  It is kept         *)
(* run-length encoded, as a sequence of runs [c, n] with n > 0 and no two  *)
(* adjacent runs of the same character, so that texts longer than the      *)
(* 4000-character limit of the chunker are small values.                   *)
(***************************************************************************)
Run(ch, n) == [c |-> ch, n |-> n]

\* len(text)
RECURSIVE TLen(_)
TLen(t) == IF t = <<>> THEN 0 ELSE t[1].n + TLen(Tail(t))

\* the encoding of the string a sequence of runs spells
RECURSIVE Norm(_)
Norm(t) ==
    IF t = <<>> THEN <<>>
    ELSE IF t[1].n = 0 THEN Norm(Tail(t))
    ELSE LET r == Norm(Tail(t))
         IN  IF r # <<>> /\ r[1].c = t[1].c
             THEN <<Run(t[1].c, t[1].n + r[1].n)>> \o Tail(r)
             ELSE <<t[1]>> \o r

\* a + b
Cat(a, b) == Norm(a \o b)

\* text[k:]
RECURSIVE TDrop(_, _)
TDrop(t, k) ==
    IF k = 0 \/ t = <<>> THEN t
    ELSE IF t[1].n <= k THEN TDrop(Tail(t), k - t[1].n)
    ELSE <<Run(t[1].c, t[1].n - k)>> \o Tail(t)

\* text[:k]
RECURSIVE TTake(_, _)
TTake(t, k) ==
    IF k = 0 \/ t = <<>> THEN <<>>
    ELSE IF t[1].n <= k THEN <<t[1]>> \o TTake(Tail(t), k - t[1].n)
    ELSE <<Run(t[1].c, k)>>

\* text[i:j]
TSlice(t, i, j) == TTake(TDrop(t, i), j - i)

LastChar(t) == IF t = <<>> THEN "" ELSE t[Len(t)].c

IsSpace(ch) == ch \in {" ", "nl"}

ParSep == <<Run("nl", 2)>>

\* n copies of the empty string
Empties(n) == [i \in 1..n |-> <<>>]

\* text.split('\n\n'): separators are found left to right, so a run of n
\* newlines holds n \div 2 of them and leaves n % 2 newlines to the next piece
RECURSIVE SplitParFrom(_, _)
SplitParFrom(t, cur) ==
    IF t = <<>> THEN <<cur>>
    ELSE IF t[1].c = "nl" /\ t[1].n >= 2
    THEN <<cur>> \o Empties((t[1].n \div 2) - 1)
         \o SplitParFrom(Tail(t), Norm(<<Run("nl", t[1].n % 2)>>))
    ELSE SplitParFrom(Tail(t), Cat(cur, <<t[1]>>))

SplitParagraphs(t) == SplitParFrom(t, <<>>)

\* the text after the white space it starts with
RECURSIVE SkipSpace(_)
SkipSpace(t) == IF t # <<>> /\ IsSpace(t[1].c) THEN SkipSpace(Tail(t)) ELSE t

\* re.split(r'(?<=[.!?])\s+', chunk)
RECURSIVE SplitSentFrom(_, _)
SplitSentFrom(t, cur) ==
    IF t = <<>> THEN <<cur>>
    ELSE IF IsSpace(t[1].c) /\ LastChar(cur) = "."
    THEN <<cur>> \o SplitSentFrom(SkipSpace(t), <<>>)
    ELSE SplitSentFrom(Tail(t), Cat(cur, <<t[1]>>))

SplitSentences(t) == SplitSentFrom(t, <<>>)

(***************************************************************************)
(* Message chunker: the chunks of split_and_send_long_message.             *)
(***************************************************************************)
max_length == 4000

\* chunks and current_chunk of the loop over the paragraphs
Packing(chunks, current_chunk) == [chunks |-> chunks, current_chunk |-> current_chunk]

\* lines 345-354: one paragraph is added to the chunk in hand, or the chunk
\* is closed and the paragraph starts the next one
PackParagraph(st, paragraph) ==
    IF TLen(st.current_chunk) + TLen(paragraph) + 2 > max_length
    THEN Packing(IF st.current_chunk # <<>> THEN Append(st.chunks, st.current_chunk)
                 ELSE st.chunks,
                 paragraph)
    ELSE Packing(st.chunks,
                 Cat(IF st.current_chunk # <<>> THEN Cat(st.current_chunk, ParSep)
                     ELSE st.current_chunk, paragraph))

\* the loop of line 345 over the paragraphs lo..hi, in their order (the
\* range is halved so that a text of thousands of paragraphs can be packed;
\* the chunks made before the range are computed before it is entered)
RECURSIVE PackRange(_, _, _, _)
PackRange(paragraphs, lo, hi, st) ==
    IF Len(st.chunks) >= 0 /\ lo > hi THEN st
    ELSE IF lo = hi THEN PackParagraph(st, paragraphs[lo])
    ELSE PackRange(paragraphs, (lo + hi) \div 2 + 1, hi,
                   PackRange(paragraphs, lo, (lo + hi) \div 2, st))

\* lines 357-358: the last chunk is added if it is not empty
LastChunk(st) ==
    IF st.current_chunk # <<>> THEN Append(st.chunks, st.current_chunk) ELSE st.chunks

\* lines 345-358: paragraphs are packed greedily into chunks
PackParagraphs(paragraphs) ==
    LastChunk(PackRange(paragraphs, 1, Len(paragraphs), Packing(<<>>, <<>>)))

\* lines 375-376: a sentence is cut every max_length characters
RECURSIVE HardSplit(_, _)
HardSplit(sentence, i) ==
    IF i >= TLen(sentence) THEN <<>>
    ELSE <<TSlice(sentence, i, i + max_length)>> \o HardSplit(sentence, i + max_length)

\* lines 367-384: the sentences of a chunk that is too long are packed
\* greedily (sub_chunk keeps its value when a sentence is cut by characters)
RECURSIVE PackSentences(_, _, _, _)
PackSentences(sentences, i, final_chunks, sub_chunk) ==
    IF i > Len(sentences)
    THEN IF sub_chunk # <<>> THEN Append(final_chunks, sub_chunk) ELSE final_chunks
    ELSE LET sentence == sentences[i]
         IN  IF TLen(sub_chunk) + TLen(sentence) + 1 > max_length
             THEN LET fc == IF sub_chunk # <<>> THEN Append(final_chunks, sub_chunk)
                            ELSE final_chunks
                  IN  IF TLen(sentence) > max_length
                      THEN PackSentences(sentences, i + 1,
                               fc \o HardSplit(sentence, 0), sub_chunk)
                      ELSE PackSentences(sentences, i + 1, fc, sentence)
             ELSE PackSentences(sentences, i + 1, final_chunks,
                      Cat(IF sub_chunk # <<>> THEN Cat(sub_chunk, <<Run(" ", 1)>>)
                          ELSE sub_chunk, sentence))

\* lines 361-384: chunks that are still too long are split further
RECURSIVE SplitFurther(_, _, _)
SplitFurther(chunks, i, final_chunks) ==
    IF i > Len(chunks) THEN final_chunks
    ELSE IF TLen(chunks[i]) <= max_length
    THEN SplitFurther(chunks, i + 1, Append(final_chunks, chunks[i]))
    ELSE SplitFurther(chunks, i + 1,
             PackSentences(SplitSentences(chunks[i]), 1, final_chunks, <<>>))

\* final_chunks of a text longer than max_length
FinalChunks(text) ==
    SplitFurther(PackParagraphs(SplitParagraphs(text)), 1, <<>>)

\* the bodies of the messages split_and_send_long_message sends for a text
ChunkBodies(text) == IF TLen(text) <= max_length THEN <<text>> ELSE FinalChunks(text)

\* len(str(k))
RECURSIVE Digits(_)
Digits(k) == IF k < 10 THEN 1 ELSE 1 + Digits(k \div 10)

\* line 388: part_title, "<title> (<part> i/n)" or "<Part> i/n"; the word
\* for "part" is six characters in the source file
PartTitle(title, i, n) ==
    IF title # <<>>
    THEN Cat(title, <<Run(" ", 1), Run("w", 7), Run(" ", 1),
                      Run("w", Digits(i) + 1 + Digits(n) + 1)>>)
    ELSE <<Run("w", 6), Run(" ", 1), Run("w", Digits(i) + 1 + Digits(n))>>

\* a message as it is given to send_safe_message
Outgoing(text, reply_markup) == [text |-> text, reply_markup |-> reply_markup]

\* lines 393-397: the message of chunk i of n
PartMessage(chunks, title, reply_markup, i) ==
    Outgoing(Cat(Cat(PartTitle(title, i, Len(chunks)), ParSep), chunks[i]),
             IF i = Len(chunks) THEN reply_markup ELSE NoKeyboard)

\* an always-labelled split_and_send_long_message
AlwaysLabelled(text, title, reply_markup) ==
    [i \in 1..Len(ChunkBodies(text)) |->
        PartMessage(ChunkBodies(text), title, reply_markup, i)]

\* the messages split_and_send_long_message gives to send_safe_message
ChunkMessages(text, title, reply_markup) ==
    IF TLen(text) <= max_length
    THEN <<Outgoing(IF title # <<>> THEN Cat(Cat(title, ParSep), text) ELSE text,
                    reply_markup)>>
    ELSE [i \in 1..Len(FinalChunks(text)) |->
             PartMessage(FinalChunks(text), title, reply_markup, i)]


(***************************************************************************)
(* Backend calls and their prompts.                                        *)
(***************************************************************************)
NoPrompt == [kind |-> "", lang |-> "", key |-> "", text |-> <<>>]

\* an entry of the prompts dictionaries (one dictionary per language)
Canned(lang, key) == [kind |-> "canned", lang |-> lang, key |-> key, text |-> <<>>]

\* the text the user typed, without its first character
TrimmedPrompt(text) == [kind |-> "user", lang |-> "", key |-> "", text |-> Tail(text)]

\* the text the user typed
UserPrompt(text) == [kind |-> "user", lang |-> "", key |-> "", text |-> text]

BackendCall(op, refs, prompt) == [op |-> op, refs |-> refs, prompt |-> prompt, ok |-> TRUE]

\* the record of a call that raised
Failing(rec) == [rec EXCEPT !.ok = FALSE]

\* a prompt table whose default is the key points prompt
AnalysisPromptKeyPoints(lang, data) ==
    Canned(lang, IF data = P_analyze_arguments THEN "arguments"
                 ELSE IF data = P_analyze_data THEN "data"
                 ELSE "key_points")

\* prompts.get(data, prompts["analyze_summarize"]) of handle_analysis_callback
AnalysisPrompt(lang, data) ==
    Canned(lang, IF data = P_analyze_key_points THEN "key_points"
                 ELSE IF data = P_analyze_arguments THEN "arguments"
                 ELSE IF data = P_analyze_data THEN "data"
                 ELSE "summarize")

\* prompts.get(comparison_type, prompts["general"]) of handle_menu_callback
ComparisonPrompt(lang, comparison_type) ==
    Canned(lang, IF comparison_type = K_differences THEN "differences"
                 ELSE IF comparison_type = K_common THEN "common"
                 ELSE IF comparison_type = K_data THEN "data"
                 ELSE "general")

\* [self.user_data[user_id]["files"][name] for name in selected_files]
RECURSIVE FileRefs(_, _)
FileRefs(files, names) ==
    IF names = <<>> THEN <<>>
    ELSE <<GetItem(files, names[1])>> \o FileRefs(files, Tail(names))

AllKeys(files, names) == \A i \in 1..Len(names) : HasKey(files, names[i])

\* "\n\n(Translation failed)"
TranslationFailed ==
    <<Run("nl", 2), Run("w", 12), Run(" ", 1), Run("w", 7)>>

\* a collaborator's answer: the text it returned, or that it raised
Returned(text) == [ok |-> TRUE, text |-> text]
Failed == [ok |-> FALSE, text |-> <<>>]

\* translate_text(response, "vi"): tr is the translator's answer
translate_text(text, tr) ==
    IF text = <<>> THEN text
    ELSE IF tr.ok THEN tr.text ELSE Cat(text, TranslationFailed)

\* the translator is called for the response and may fail
Translate(c, lang, response, tr) ==
    IF c.exc = "" /\ lang = "vi" /\ response # <<>> /\ ~tr.ok
    THEN [c EXCEPT !.nf = @ + 1] ELSE c

\* the text the handler sends: translated when the language is "vi"
Rendered(lang, response, tr) ==
    IF lang = "vi" THEN translate_text(response, tr) ELSE response

(***************************************************************************)
(* split_and_send_long_message: rsf gives the gateway's result for each    *)
(* message; only the last message carries the caller's reply_markup.       *)
(***************************************************************************)
RECURSIVE SendParts(_, _, _, _, _, _)
SendParts(c, u, n, i, ctl, rsf) ==
    IF i > n THEN c
    ELSE SendParts(TrackLast(Send(c, "part", IF i = n THEN ctl ELSE NoKeyboard, rsf[i]), u),
                   u, n, i + 1, ctl, rsf)

split_and_send_long_message(c, u, text, ctl, rsf) ==
    IF TLen(text) <= max_length
    THEN TrackLast(Send(c, "result", ctl, rsf[1]), u)
    ELSE SendParts(c, u, Len(FinalChunks(text)), 1, ctl, rsf)

\* the number of messages split_and_send_long_message sends for a text
NumParts(text) == Len(ChunkBodies(text))

(***************************************************************************)
(* handle_menu_callback, branch by branch.  k holds the outcomes of the    *)
(* collaborator calls the branch makes.                                    *)
(***************************************************************************)
Lang(c, u) == c.ud[u].language

\* lines 694-712
menu_upload(c, u, q, k) ==
    Ret(Edit(c, q, "upload_prompt", NoKeyboard, k.re), UPLOADING)

\* lines 714-728
menu_language(c, u, q, k) ==
    Ret(Edit(c, q, "lang_prompt", LanguageKeyboard, k.re), LANGUAGE_SELECTION)

\* lines 730-760
menu_files(c, u, q, k) ==
    Ret(Edit(c, q, "files", FilesKeyboard(c.ud[u]), k.re), MAIN_MENU)

\* lines 762-817
menu_analyze(c, u, q, k) ==
    IF c.ud[u].current_file = NoneV
    THEN Ret(Edit(c, q, "no_doc", BackKeyboard, k.re), MAIN_MENU)
    ELSE Ret(Edit(c, q, "analyze_options", AnalyzeKeyboard, k.re), ANALYZING)

\* a menu_ask that does not look at current_file
menu_ask_unchecked(c, u, q, k) ==
    Ret(Edit(c, q, "ask_prompt", NoKeyboard, k.re), ANALYZING)

\* lines 819-868
menu_ask(c, u, q, k) ==
    IF c.ud[u].current_file = NoneV
    THEN Ret(Edit(c, q, "no_doc", BackKeyboard, k.re), MAIN_MENU)
    ELSE Ret(Edit(c, q, "ask_prompt", NoKeyboard, k.re), ANALYZING)

\* the document selection view of the comparison flow
compare_view(c, u, q, k) ==
    Ret(Edit(c, q, "compare_menu", CompareKeyboard(c.ud[u]), k.re), MAIN_MENU)

\* line 921: self.user_data[user_id]["compare_selection"] = []
ClearSelection(c, u) == [c EXCEPT !.ud[u].compare_selection = <<>>]

\* lines 870-930
menu_compare(c, u, q, k) ==
    IF Len(c.ud[u].files) < 2
    THEN Ret(Edit(c, q, "need_more_docs", BackKeyboard, k.re), MAIN_MENU)
    ELSE compare_view(ClearSelection(c, u), u, q, k)

\* lines 940-954: file_name becomes the current file
SelectFile(c, u, q, file_name, k) ==
    IF file_name # NoneV /\ HasKey(c.ud[u].files, file_name)
    THEN Ret(Edit([c EXCEPT !.ud[u].current_file = file_name], q, "selected",
                  BackKeyboard, k.re), MAIN_MENU)
    ELSE Ret(c, MAIN_MENU)

\* lines 935-954
menu_select(c, u, q, data, k) ==
    SelectFile(c, u, q, _get_filename_from_id(c.ud[u].files, DropFirst(data, 12)), k)

\* a deletion that forgets to reset current_file
DeleteFileKeepCurrent(s, file_name) == [s EXCEPT !.files = DelItem(@, file_name)]

\* a deletion that resets current_file whatever it was
DeleteFileUnsetCurrent(s, file_name) ==
    [s EXCEPT !.files = DelItem(@, file_name), !.current_file = NoneV]

\* lines 969-974: the entry is removed and current_file reset if it was it
DeleteFile(s, file_name) ==
    [s EXCEPT !.files = DelItem(@, file_name),
              !.current_file = IF @ = file_name THEN NoneV ELSE @]

\* lines 961-987: file_name is deleted at the backend and from the session
RemoveFile(c, u, q, file_name, k) ==
    IF file_name # NoneV /\ HasKey(c.ud[u].files, file_name)
    THEN Ret(Edit([Call(c, BackendCall("delete", <<GetItem(c.ud[u].files, file_name)>>,
                                       NoPrompt))
                      EXCEPT !.ud[u] = DeleteFile(@, file_name)],
                  q, "deleted", BackKeyboard, k.re), MAIN_MENU)
    ELSE Ret(c, MAIN_MENU)

\* lines 956-987
menu_delete(c, u, q, data, k) ==
    RemoveFile(c, u, q, _get_filename_from_id(c.ud[u].files, DropFirst(data, 12)), k)

\* lines 995-1001: the selection of file_name is toggled
ToggleSelection(s, file_name) ==
    IF InSeq(file_name, s.compare_selection)
    THEN [s EXCEPT !.compare_selection = RemoveFirst(@, file_name)]
    ELSE [s EXCEPT !.compare_selection = Append(@, file_name)]

\* lines 993-1043: file_name is toggled and the selection view shown again
ToggleFile(c, u, q, file_name, k) ==
    IF file_name # NoneV /\ HasKey(c.ud[u].files, file_name)
    THEN compare_view([c EXCEPT !.ud[u] = ToggleSelection(@, file_name)], u, q, k)
    ELSE Ret(c, MAIN_MENU)

\* lines 989-1043
compare_select(c, u, q, data, k) ==
    ToggleFile(c, u, q, _get_filename_from_id(c.ud[u].files, DropFirst(data, 14)), k)

\* lines 1045-1110
compare_execute(c, u, q, k) ==
    IF Len(c.ud[u].compare_selection) < 2
    THEN Ret(Edit(c, q, "not_enough", {P_menu_compare}, k.re), MAIN_MENU)
    ELSE IF ~AllKeys(c.ud[u].files, c.ud[u].compare_selection)
    THEN Raise(c, "error")
    ELSE Ret(Edit(c, q, "compare_options", CompareTypeKeyboard, k.re), MAIN_MENU)

\* a backend call that is made again when it raised
BackendRetrying(c, rec, rb) ==
    IF rb.ok THEN Call(c, rec) ELSE Fail(Call(Call(c, Failing(rec)), Failing(rec)), "error")

\* a call of the AI backend, which answers rb
Backend(c, rec, rb) ==
    IF rb.ok THEN Call(c, rec) ELSE Fail(Call(c, Failing(rec)), "error")

\* try: delete_message(...) except Exception: pass
DeleteQuietly(c, m, r) == IF c.exc # "" THEN c ELSE Caught(Delete(c, m, r))

\* except Exception: the error view replaces message m
OrEditError(c, m, r) ==
    IF c.exc # "" THEN Ret(Edit(Caught(c), m, "error", BackKeyboard, r), MAIN_MENU)
    ELSE Ret(c, MAIN_MENU)

\* lines 1160-1188: the try block of the comparison, up to the call of show_menu
compare_try(c, u, q, file_refs, prompt, k) ==
    split_and_send_long_message(
        DeleteQuietly(Translate(Backend(c, BackendCall("compare", file_refs, prompt), k.rb),
                                Lang(c, u), k.rb.text, k.tr), q, k.rd),
        u, Rendered(Lang(c, u), k.rb.text, k.tr), NoKeyboard, k.rsf)

\* lines 1160-1204: the comparison once the processing view is shown
compare_body(c, u, q, file_refs, prompt, k) ==
    IF c.exc # "" THEN c
    ELSE OrEditError(show_menu(compare_try(c, u, q, file_refs, prompt, k),
                               u, q, k.ds, k.ra2, k.re2, k.rs2), q, k.re3)

\* a comparison that does not count the selected documents
compare_run_unchecked(c, u, q, data, k) ==
    IF ~AllKeys(c.ud[u].files, c.ud[u].compare_selection)
    THEN Raise(c, "error")
    ELSE compare_body(Edit(c, q, "processing", NoKeyboard, k.re), u, q,
                      FileRefs(c.ud[u].files, c.ud[u].compare_selection),
                      ComparisonPrompt(Lang(c, u), DropFirst(data, 8)), k)

\* lines 1112-1204
compare_run(c, u, q, data, k) ==
    IF Len(c.ud[u].compare_selection) < 2
    THEN Ret(Edit(c, q, "not_enough", {P_menu_compare}, k.re), MAIN_MENU)
    ELSE IF ~AllKeys(c.ud[u].files, c.ud[u].compare_selection)
    THEN Raise(c, "error")
    ELSE compare_body(Edit(c, q, "processing", NoKeyboard, k.re), u, q,
                      FileRefs(c.ud[u].files, c.ud[u].compare_selection),
                      ComparisonPrompt(Lang(c, u), DropFirst(data, 8)), k)

\* lines 694-1206: the branches of handle_menu_callback
menu_branch(c, u, q, data, k) ==
    IF c.exc # "" THEN c
    ELSE IF data = P_menu_upload THEN menu_upload(c, u, q, k)
    ELSE IF data = P_menu_language THEN menu_language(c, u, q, k)
    ELSE IF data = P_menu_files THEN menu_files(c, u, q, k)
    ELSE IF data = P_menu_analyze THEN menu_analyze(c, u, q, k)
    ELSE IF data = P_menu_ask THEN menu_ask(c, u, q, k)
    ELSE IF data = P_menu_compare THEN menu_compare(c, u, q, k)
    ELSE IF data = P_menu_back \/ data = P_analyze_back
    THEN Ret(show_menu(c, u, q, k.ds, k.ra2, k.re, k.rs), MAIN_MENU)
    ELSE IF StartsWith(data, PFX_menu_select) THEN menu_select(c, u, q, data, k)
    ELSE IF StartsWith(data, PFX_menu_delete) THEN menu_delete(c, u, q, data, k)
    ELSE IF StartsWith(data, PFX_compare_select) THEN compare_select(c, u, q, data, k)
    ELSE IF data = P_compare_execute THEN compare_execute(c, u, q, k)
    ELSE IF StartsWith(data, PFX_compare) THEN compare_run(c, u, q, data, k)
    ELSE Ret(c, MAIN_MENU)

\* handle_menu_callback
handle_menu_callback(c0, u, q, data, k) ==
    menu_branch(NeedSession(Answer(c0, "", k.ra), u), u, q, data, k)

(***************************************************************************)
(* handle_analysis_callback.                                               *)
(***************************************************************************)
\* an analysis that hands the follow-up controls to the chunker
analysis_try_controls_on_chunk(c, u, q, file_ref, prompt, k) ==
    TrackLast(
        Send(split_and_send_long_message(
                 DeleteQuietly(Translate(Backend(c, BackendCall("analyze", <<file_ref>>, prompt),
                                                 k.rb),
                                         Lang(c, u), k.rb.text, k.tr), q, k.rd),
                 u, Rendered(Lang(c, u), k.rb.text, k.tr), FollowUpKeyboard, k.rsf),
             "follow_up", FollowUpKeyboard, k.rs), u)

\* lines 1269-1317: the try block of the analysis
analysis_try(c, u, q, file_ref, prompt, k) ==
    TrackLast(
        Send(split_and_send_long_message(
                 DeleteQuietly(Translate(Backend(c, BackendCall("analyze", <<file_ref>>, prompt),
                                                 k.rb),
                                         Lang(c, u), k.rb.text, k.tr), q, k.rd),
                 u, Rendered(Lang(c, u), k.rb.text, k.tr), NoKeyboard, k.rsf),
             "follow_up", FollowUpKeyboard, k.rs), u)

\* lines 1269-1333: the analysis once the processing view is shown
analysis_body(c, u, q, file_ref, prompt, k) ==
    IF c.exc # "" THEN c
    ELSE OrEditError(analysis_try(c, u, q, file_ref, prompt, k), q, k.re3)

\* lines 1221-1333: the branches of handle_analysis_callback
analysis_branch(c, u, q, data, k) ==
    IF c.exc # "" THEN c
    ELSE IF data = P_analyze_back
    THEN Ret(show_menu(c, u, q, k.ds, k.ra2, k.re, k.rs), MAIN_MENU)
    ELSE IF c.ud[u].current_file = NoneV
    THEN Ret(Edit(c, q, "no_doc", BackKeyboard, k.re), MAIN_MENU)
    ELSE IF ~HasKey(c.ud[u].files, c.ud[u].current_file)
    THEN Raise(c, "error")
    ELSE analysis_body(Edit(c, q, "processing", NoKeyboard, k.re), u, q,
                       GetItem(c.ud[u].files, c.ud[u].current_file),
                       AnalysisPrompt(Lang(c, u), data), k)

\* handle_analysis_callback
handle_analysis_callback(c0, u, q, data, k) ==
    analysis_branch(NeedSession(Answer(c0, "", k.ra), u), u, q, data, k)

(***************************************************************************)
(* handle_language_selection and handle_callback_query.                    *)
(***************************************************************************)
\* an initialisation that replaces the session of a user who has one
FreshSession(c, u) ==
    IF c.exc # "" THEN c
    ELSE [c EXCEPT !.ud = [x \in DOMAIN c.ud \cup {u} |->
                               IF x = u THEN NewSession ELSE c.ud[x]]]

\* if user_id not in self.user_data: self.user_data[user_id] = {...}
WithSession(c, u) == IF c.exc # "" THEN c ELSE [c EXCEPT !.ud = EnsureSession(c.ud, u)]

\* a language choice that sets English whichever button is pressed
SetEnglish(c, u, q, data, rr) ==
    IF c.exc # "" THEN c
    ELSE RawEdit([c EXCEPT !.ud[u].language = "en"], q, "lang_set", NoKeyboard, rr)

\* lines 465-470
SetLanguage(c, u, q, data, rr) ==
    IF c.exc # "" THEN c
    ELSE IF data = P_lang_en
    THEN RawEdit([c EXCEPT !.ud[u].language = "en"], q, "lang_set", NoKeyboard, rr)
    ELSE IF data = P_lang_vi
    THEN RawEdit([c EXCEPT !.ud[u].language = "vi"], q, "lang_set", NoKeyboard, rr)
    ELSE c

\* lines 454-474
handle_language_selection(c0, u, q, data, k) ==
    Ret(show_menu(SetLanguage(WithSession(Answer(c0, "", k.ra), u), u, q, data, k.rr),
                  u, q, k.ds, k.ra2, k.re, k.rs), MAIN_MENU)

\* lines 413-424: the handler is chosen by the prefix of the payload
callback_route(c, u, q, data, k) ==
    IF StartsWith(data, PFX_analyze) THEN handle_analysis_callback(c, u, q, data, k)
    ELSE IF StartsWith(data, PFX_menu) \/ StartsWith(data, PFX_compare)
    THEN handle_menu_callback(c, u, q, data, k)
    ELSE IF StartsWith(data, PFX_lang) THEN handle_language_selection(c, u, q, data, k)
    ELSE Ret(Answer(c, "Unknown button", k.ra), MAIN_MENU)

\* lines 425-428: except Exception
OrAnswerError(c, r) ==
    IF c.exc # "" THEN Ret(Answer(Caught(c), "Error", r), MAIN_MENU) ELSE c

\* lines 403-428
handle_callback_query(c, u, q, data, k) ==
    OrAnswerError(callback_route(c, u, q, data, k), k.ra3)


(***************************************************************************)
(* Command, text and document handlers.                                    *)
(***************************************************************************)
\* lines 545-585: start_command up to its call of show_menu
start_welcome(c0, u, k) ==
    TrackLast(Send(cleanup_messages(WithSession(c0, u), u, DefaultMaxKeep, k.ds1),
                   "welcome", NoKeyboard, k.rr), u)

\* start_command
start_command(c0, u, k) ==
    Ret(show_menu(start_welcome(c0, u, k), u, 0, k.ds, k.ra2, k.re, k.rs), MAIN_MENU)

\* back_to_menu, and show_menu as the handler of /menu
back_to_menu(c0, u, k) ==
    Ret(show_menu(c0, u, 0, k.ds, k.ra2, k.re, k.rs), MAIN_MENU)

\* the deleted message is forgotten; a failed deletion is ignored
Forget(c, u, m) ==
    IF c.exc # "" THEN Caught(c) ELSE [c EXCEPT !.ud[u].messages = RemoveFirst(@, m)]

\* the processing message is deleted and, if that worked, forgotten
DeleteAndForget(c, u, m, r) ==
    IF c.exc # "" THEN c ELSE Forget(Delete(c, m, r), u, m)

\* lines 1373-1425: the try block of handle_analysis_prompt
prompt_try(c, u, pm, file_ref, text, k) ==
    TrackLast(
        Send(split_and_send_long_message(
                 DeleteAndForget(Translate(Backend(c, BackendCall("analyze", <<file_ref>>,
                                                                  UserPrompt(text)), k.rb),
                                           Lang(c, u), k.rb.text, k.tr), u, pm, k.rd),
                 u, Rendered(Lang(c, u), k.rb.text, k.tr), NoKeyboard, k.rsf),
             "follow_up", FollowUpKeyboard, k.rs2), u)

\* lines 1426-1453: except Exception
prompt_except(c, u, pm, k) ==
    IF c.exc # ""
    THEN Ret(TrackLast(Send(DeleteAndForget(Caught(c), u, pm, k.rd2), "error",
                            BackKeyboard, k.rs3), u), MAIN_MENU)
    ELSE Ret(c, MAIN_MENU)

\* lines 1373-1453: the prompt once the processing message is sent
prompt_body(c, u, file_ref, text, k) ==
    IF c.exc # "" THEN c
    ELSE prompt_except(prompt_try(c, u, c.last, file_ref, text, k), u, c.last, k)

\* lines 1340-1453: the branches of handle_analysis_prompt
prompt_branch(c, u, text, k) ==
    IF c.exc # "" THEN c
    ELSE IF c.ud[u].current_file = NoneV
    THEN Ret(TrackLast(Send(c, "no_doc", BackKeyboard, k.rs), u), MAIN_MENU)
    ELSE IF ~HasKey(c.ud[u].files, c.ud[u].current_file)
    THEN Raise(c, "error")
    ELSE prompt_body(TrackLast(Send(c, "processing", NoKeyboard, k.rs), u), u,
                     GetItem(c.ud[u].files, c.ud[u].current_file), text, k)

\* handle_analysis_prompt
handle_analysis_prompt(c0, u, text, k) == prompt_branch(NeedSession(c0, u), u, text, k)

\* an upload that stores the handle without making the document current
StoreFileNotCurrent(c, u, file_name) ==
    IF c.exc # "" THEN c
    ELSE [c EXCEPT !.ud[u].files = SetItem(@, file_name, c.nh), !.nh = @ + 1]

\* lines 1497-1498: the handle is stored and the document made current
StoreFile(c, u, file_name) ==
    IF c.exc # "" THEN c
    ELSE [c EXCEPT !.ud[u].files = SetItem(@, file_name, c.nh),
                   !.ud[u].current_file = file_name,
                   !.nh = @ + 1]

\* lines 1480-1532: the try block of handle_pdf
pdf_try(c, u, message, file_name, k) ==
    Edit(StoreFile(Backend(Edit(IF k.rdl THEN c ELSE Fail(c, "error"),
                                message, "uploading", NoKeyboard, k.re),
                           BackendCall("upload", <<>>, NoPrompt), k.rb),
                   u, file_name),
         message, "upload_ok", UploadedKeyboard, k.re2)

\* lines 1480-1549: try and except, once get_file has answered
pdf_body(c, u, message, file_name, k) ==
    IF c.exc # "" THEN c
    ELSE OrEditError(pdf_try(c, u, message, file_name, k), message, k.re3)

\* lines 1474-1549: get_file, then the try block
pdf_get(c, u, file_name, k) ==
    IF c.exc # "" THEN c
    ELSE pdf_body(IF k.rg THEN c ELSE Fail(c, "neterr"), u, c.last, file_name, k)

\* handle_pdf (handle_pdf_in_upload calls it and returns MAIN_MENU as well)
handle_pdf(c0, u, file_name, k) ==
    pdf_get(TrackLast(Send(NeedSession(c0, u), "downloading", NoKeyboard, k.rs), u),
            u, file_name, k)

\* handle_text_in_menu
handle_text_in_menu(c0, u, k) ==
    Ret(TrackLast(Send(NeedSession(c0, u), "use_menu", BackKeyboard, k.rs), u), MAIN_MENU)

\* a handler of text that sends the reminder and leaves for the menu
ReminderThenMenu(c0, u, k) ==
    Ret(TrackLast(Send(NeedSession(c0, u), "upload_reminder", BackKeyboard, k.rs), u),
        MAIN_MENU)

\* handle_text_in_upload
handle_text_in_upload(c0, u, k) ==
    Ret(TrackLast(Send(NeedSession(c0, u), "upload_reminder", BackKeyboard, k.rs), u),
        UPLOADING)

\* cancel
cancel(c0, u, k) ==
    Ret(TrackLast(Send(NeedSession(c0, u), "cancelled", NoKeyboard, k.rs), u), END)

\* help_command
help_command(c0, u, k) ==
    TrackLast(Send(NeedSession(c0, u), "help", NoKeyboard, k.rs), u)

\* language_command
language_command(c0, u, k) ==
    TrackLast(Send(WithSession(c0, u), "lang_prompt", {P_lang_en, P_lang_vi}, k.rr), u)

\* lines 1686-1689: the message is tracked; a failure to send it is logged
TrackIfSession(c, u) ==
    IF c.exc # "" THEN Caught(c)
    ELSE IF u \in DOMAIN c.ud THEN TrackLast(c, u) ELSE c

\* error_handler: runs when a handler raised
error_handler(c, u, r) == TrackIfSession(Send(c, "generic_error", BackKeyboard, r), u)


(***************************************************************************)
(* The environment of a handler run: the events users send and the         *)
(* answers of the collaborators (transport, AI backend, translator).       *)
(***************************************************************************)
ShortText == <<Run("w", 5)>>
LongText == <<Run("w", 3000), Run("nl", 2), Run("w", 3000)>>
Responses == {ShortText, LongText}
Translations == {ShortText}
UserTexts == {<<"q">>}

BackendRets == {Failed} \cup {Returned(t) : t \in Responses}
TranslatorRets == {Failed} \cup {Returned(t) : t \in Translations}

LongLabels == {f \in Labels : Len(f) > 32}
HashValues == {1234, 34}

Event(u, kind, cmd, data, msg) ==
    [user |-> u, kind |-> kind, cmd |-> cmd, data |-> data, msg |-> msg]

(***************************************************************************)
(* Guided runs.  The updates of a run below are handled with the answers   *)
(* the run gives (Answers); at any point of it the exploration may leave   *)
(* it for at most MaxSteps arbitrary updates with arbitrary answers.       *)
(***************************************************************************)
Cmd(cmd) == Event("u1", "command", cmd, <<>>, 0)
Doc(file_name) == Event("u1", "document", "", file_name, 0)
Txt(text) == Event("u1", "text", "", text, 0)
Btn(data, q) == Event("u1", "callback", "", data, q)

\* three documents, the menu on two messages, two documents selected
TourPick ==
    <<Cmd("start"), Doc(LabelA), Doc(LabelUA), Doc(LabelUUA), Btn(P_menu_back, 4),
      Btn(P_menu_back, 5), Btn(P_menu_compare, 5), Btn(PFX_compare_select \o LabelA, 5),
      Btn(PFX_compare_select \o LabelUA, 5), Btn(P_compare_execute, 5)>>

\* ... and compared
TourCompare == Append(TourPick, Btn(P_compare_general, 5))

\* ... and the selection emptied from the other menu
TourCleared == Append(TourPick, Btn(P_menu_compare, 4))

\* two documents, the button of each pressed in the comparison flow, then execute
TourSelect ==
    <<Cmd("start"), Doc(LabelA), Doc(LabelB), Btn(P_menu_back, 4), Btn(P_menu_compare, 4),
      Btn(PFX_compare_select \o LabelA, 4), Btn(PFX_compare_select \o LabelB, 4),
      Btn(P_compare_execute, 4)>>

\* a selected document and the list of documents
TourFiles ==
    <<Cmd("start"), Doc(LabelA), Doc(LabelUA), Btn(P_menu_back, 4), Btn(P_menu_compare, 4),
      Btn(PFX_compare_select \o LabelA, 4), Btn(P_menu_back, 4), Btn(P_menu_files, 4)>>

\* a document is analysed, then asked about
TourAnalyze ==
    <<Cmd("start"), Doc(LabelA), Btn(P_analyze_summarize, 3), Btn(P_menu_ask, 5),
      Txt(<<"q">>)>>

\* the language is changed, a document is uploaded from the upload view
TourLanguage ==
    <<Cmd("start"), Btn(P_menu_language, 2), Btn(P_lang_vi, 2), Btn(P_menu_upload, 2),
      Doc(LabelA), Btn(P_menu_back, 3), Btn(P_menu_analyze, 3)>>

\* the current document is deleted while older messages still show the menu
\* and the analysis options
TourStale ==
    <<Cmd("start"), Doc(LabelA), Doc(LabelB), Doc(LabelUA), Btn(P_menu_back, 3),
      Btn(P_menu_back, 4), Btn(P_menu_analyze, 4), Btn(P_menu_back, 5),
      Btn(P_menu_files, 5), Btn(PFX_menu_delete \o LabelUA, 5)>>

\* the current document is deleted from the list of documents while the
\* conversation is in ANALYZING; the edit that confirms the deletion fails
\* and so does query.answer in the except clause, so that the handler raises
\* and the conversation stays in ANALYZING
TourOrphan ==
    <<Cmd("start"), Doc(LabelA), Doc(LabelB), Btn(P_menu_back, 3), Btn(P_menu_back, 4),
      Btn(P_menu_files, 4), Btn(P_menu_analyze, 3), Btn(PFX_menu_delete \o LabelB, 4)>>

\* the upload view is opened, a text is sent instead of a document, the back
\* button of the reminder is pressed, then /back is typed
TourReminder ==
    <<Cmd("start"), Btn(P_menu_upload, 2), Txt(<<"q">>), Btn(P_menu_back, 3), Cmd("back")>>

\* the update e as sent by user u
By(u, e) == [e EXCEPT !.user = u]

\* two users, each with a session and a document of their own
TourNeighbour ==
    <<Cmd("start"), Doc(LabelA), By("u2", Cmd("start")), By("u2", Doc(LabelB))>>

\* the message that confirms an upload gets older than the three most
\* recent tracked messages, then its back button is pressed
TourBuried ==
    <<Cmd("start"), Doc(LabelA), Txt(<<"q">>), Txt(<<"q">>), Txt(<<"q">>),
      Btn(P_menu_back, 3)>>

Tours == {TourCompare, TourCleared, TourSelect, TourFiles, TourAnalyze, TourLanguage,
          TourStale, TourOrphan, TourReminder, TourNeighbour, TourBuried}

\* the failures a guided run has had by its own answers
ScriptedFaults(t) == IF t = TourOrphan THEN 2 ELSE 0

\* the failures that happened outside the guided run
Spent == faults - ScriptedFaults(trail)

\* the answers of the collaborators: no failure once MaxFaults have happened
\* outside the guided run
Quiet == Spent >= MaxFaults
SendAns == IF Quiet THEN {"ok"} ELSE SendRets
EditAns == IF Quiet THEN {"ok"} ELSE EditRets
RawAns == IF Quiet THEN {"ok"} ELSE RawRets
DelAns == IF Quiet THEN {"ok"} ELSE {"ok", "neterr"}
BoolAns == IF Quiet THEN {TRUE} ELSE BOOLEAN
BackendAns == IF Quiet THEN {Returned(t) : t \in Responses} ELSE BackendRets
TranslatorAns == IF Quiet THEN {Returned(t) : t \in Translations} ELSE TranslatorRets
UploadAns == IF Quiet THEN {Returned(<<>>)} ELSE {Failed, Returned(<<>>)}
DelAnsScripts(c, u, max_keep) ==
    [1..Len(messages_to_delete(c, u, max_keep)) -> RawAns]

\* the answers used when a handler does not make the call
K0 == [re |-> "ok", re2 |-> "ok", re3 |-> "ok", rs |-> "ok", rs2 |-> "ok", rs3 |-> "ok",
       ra |-> "ok", ra2 |-> "ok", ra3 |-> "ok", rr |-> "ok", rd |-> "ok", rd2 |-> "ok",
       rb |-> Failed, tr |-> Failed,
       rg |-> TRUE, rdl |-> TRUE, ds |-> <<>>, ds1 |-> <<>>, rsf |-> <<>>, rerr |-> "ok"]

\* the answers of collaborators that all work
OkScript == [i \in 1..16 |-> "ok"]
KOk == [K0 EXCEPT !.rb = Returned(ShortText), !.tr = Returned(ShortText),
                  !.ds = OkScript, !.ds1 = OkScript, !.rsf = OkScript]

\* the answers to a call that is made only when cond holds
If(cond, S, d) == IF cond THEN S ELSE {d}

\* the number of calls that do not succeed when the collaborators answer k
NotOk(sc) == Cardinality({i \in DOMAIN sc : sc[i] # "ok"})
Failures(k) ==
    NotOk(<<k.re, k.re2, k.re3, k.rs, k.rs2, k.rs3, k.ra, k.ra2, k.ra3, k.rr, k.rd, k.rd2>>)
    + NotOk(k.ds) + NotOk(k.ds1) + NotOk(k.rsf)
    + (IF k.rg THEN 0 ELSE 1) + (IF k.rdl THEN 0 ELSE 1)

\* the answers k stay within the failures the exploration allows
Within(k) == Failures(k) = 0 \/ Spent + Failures(k) <= MaxFaults

EOk(r) == r \in {"ok", "none"}
AllOk(rsf) == \A i \in DOMAIN rsf : rsf[i] = "ok"
AllOkOrBad(ds) == \A i \in DOMAIN ds : ds[i] \in {"ok", "badreq"}

(***************************************************************************)
(* The dispatcher.  add_handlers registers the conversation handler, then  *)
(* /help and /language: an update goes to the first handler that accepts   *)
(* it.  The handler's effects are committed; when it raised, the state of  *)
(* the conversation is kept and error_handler runs.                        *)
(***************************************************************************)
\* a conversation handler with /start as its entry point only
InConversationEntryOnly(st, e) ==
    CASE e.kind = "command" ->
             \/ e.cmd = "start" /\ st = END
             \/ e.cmd = "menu" /\ st = MAIN_MENU
             \/ e.cmd = "back" /\ st \in {ANALYZING, UPLOADING}
             \/ e.cmd = "cancel" /\ st # END
      [] e.kind = "document" -> st \in {MAIN_MENU, UPLOADING}
      [] e.kind = "text" -> st \in {MAIN_MENU, ANALYZING, UPLOADING}
      [] e.kind = "callback" -> st \in {MAIN_MENU, ANALYZING, LANGUAGE_SELECTION}
      [] OTHER -> FALSE

\* the conversation handler accepts the update in state st
InConversation(st, e) ==
    CASE e.kind = "command" ->
             \/ e.cmd = "start"
             \/ e.cmd = "menu" /\ st = MAIN_MENU
             \/ e.cmd = "back" /\ st \in {ANALYZING, UPLOADING}
             \/ e.cmd = "cancel" /\ st # END
      [] e.kind = "document" -> st \in {MAIN_MENU, UPLOADING}
      [] e.kind = "text" -> st \in {MAIN_MENU, ANALYZING, UPLOADING}
      [] e.kind = "callback" -> st \in {MAIN_MENU, ANALYZING, LANGUAGE_SELECTION}
      [] OTHER -> FALSE

\* some handler accepts the update
Handled(st, e) ==
    InConversation(st, e) \/ (e.kind = "command" /\ e.cmd \in {"help", "language"})

\* add_handlers: the run of the handler that accepts the update
Dispatch(c0, st, u, e, k) ==
    IF ~Handled(st, e) THEN c0
    ELSE CASE e.kind = "command" ->
                  (CASE e.cmd = "start" -> start_command(c0, u, k)
                     [] e.cmd \in {"menu", "back"} -> back_to_menu(c0, u, k)
                     [] e.cmd = "cancel" -> cancel(c0, u, k)
                     [] e.cmd = "help" -> help_command(c0, u, k)
                     [] e.cmd = "language" -> language_command(c0, u, k))
           [] e.kind = "document" -> handle_pdf(c0, u, e.data, k)
           [] e.kind = "text" ->
                  (CASE st = MAIN_MENU -> handle_text_in_menu(c0, u, k)
                     [] st = ANALYZING -> handle_analysis_prompt(c0, u, e.data, k)
                     [] st = UPLOADING -> handle_text_in_upload(c0, u, k))
           [] e.kind = "callback" ->
                  IF st = LANGUAGE_SELECTION
                  THEN handle_language_selection(c0, u, e.msg, e.data, k)
                  ELSE handle_callback_query(c0, u, e.msg, e.data, k)

\* the bot between two updates
Bot(ud, cv, chats, nid, nh) ==
    [ud |-> ud, conv |-> cv, live |-> chats, nid |-> nid, nh |-> nh]

\* the bot after construction
Bot0 ==
    Bot([u \in {} |-> NewSession], [u \in Users |-> END], [u \in Users |-> <<>>],
        [u \in Users |-> 1], 1)

CtxOf(b, u) ==
    [ud |-> b.ud, live |-> b.live[u], nid |-> b.nid[u], nh |-> b.nh,
     out |-> <<>>, calls |-> <<>>, exc |-> "", last |-> 0, ret |-> MAIN_MENU, nf |-> 0]

\* what the run c of the handler of update e leaves behind: f is the run
\* continued by error_handler when c raised
Settled(b, u, e, c, f) ==
    [bot |-> Bot(f.ud,
                 IF c.exc = "" /\ InConversation(b.conv[u], e)
                 THEN [b.conv EXCEPT ![u] = c.ret] ELSE b.conv,
                 [b.live EXCEPT ![u] = f.live],
                 [b.nid EXCEPT ![u] = f.nid],
                 f.nh),
     ev |-> e, out |-> f.out, calls |-> f.calls, raised |-> (c.exc # ""), nf |-> f.nf]

Settle(b, u, e, c, rerr) ==
    Settled(b, u, e, c, IF c.exc = "" THEN c ELSE error_handler(Caught(c), u, rerr))

\* update e is handled by bot b, the collaborators answering k
After(b, e, k) ==
    Settle(b, e.user, e, Dispatch(CtxOf(b, e.user), b.conv[e.user], e.user, e, k), k.rerr)

\* the answers of the collaborators to the update e that follows the updates t
\* of a guided run: they all work, but for the last update of TourOrphan
Answers(t, e) ==
    IF Append(t, e) = TourOrphan
    THEN [KOk EXCEPT !.re = "neterr", !.ra3 = "neterr"]
    ELSE KOk

\* the updates that continue a guided run after the updates t
Continuations(t) ==
    {r[Len(t) + 1] : r \in {x \in Tours : Len(x) > Len(t) /\ SubSeq(x, 1, Len(t)) = t}}

\* the bot as an update of user u finds it
Found(u) ==
    [conv |-> conv[u], ud |-> user_data, live |-> live[u], nh |-> nextHandle,
     faults |-> faults]

Init ==
    /\ user_data = Bot0.ud
    /\ conv = Bot0.conv
    /\ live = Bot0.live
    /\ nextId = Bot0.nid
    /\ nextHandle = Bot0.nh
    /\ pyhash \in [LongLabels -> HashValues]
    /\ faults = 0
    /\ steps = 0
    /\ trail = <<>>
    /\ ev = Event("", "", "", <<>>, 0)
    /\ out = <<>>
    /\ calls = <<>>
    /\ raised = FALSE
    /\ before = Found("u1")
    /\ probe = NoProbe

\* the bot now
Now == Bot(user_data, conv, live, nextId, nextHandle)

\* the update is handled: the variables take the values of r
Update(r) ==
    /\ faults' = faults + r.nf
    /\ user_data' = r.bot.ud
    /\ conv' = r.bot.conv
    /\ live' = r.bot.live
    /\ nextId' = r.bot.nid
    /\ nextHandle' = r.bot.nh
    /\ ev' = r.ev
    /\ out' = r.out
    /\ calls' = r.calls
    /\ raised' = r.raised
    /\ before' = Found(r.ev.user)
    /\ UNCHANGED <<pyhash, probe>>

\* ... if the failures stay within MaxFaults
Commit(r) == (r.nf = 0 \/ Spent + r.nf <= MaxFaults) /\ Update(r)

\* the run c of the handler of update e ends; error_handler runs if it raised
Finished(u, e, c) ==
    /\ steps < MaxSteps
    /\ \E rerr \in If(c.exc # "", SendAns, "ok") : Commit(Settle(Now, u, e, c, rerr))
    /\ steps' = steps + 1
    /\ trail' = <<>>

\* update e of user u is handled, the collaborators answering k
Finish(u, e, k) == Within(k) /\ Finished(u, e, Dispatch(Ctx(u), conv[u], u, e, k))

\* the next update of a guided run is handled
Guided ==
    /\ steps = 0
    /\ \E e \in Continuations(trail) :
           /\ Update(After(Now, e, Answers(trail, e)))
           /\ trail' = Append(trail, e)
           /\ UNCHANGED steps

\* /start: an entry point, and a handler of every state
Start(u) ==
    \E ds1 \in DelAnsScripts(Ctx(u), u, DefaultMaxKeep), rr \in RawAns :
        \E ds \in DelAnsScripts(start_welcome(Ctx(u), u, [K0 EXCEPT !.ds1 = ds1, !.rr = rr]),
                                 u, DefaultMaxKeep) :
        \E rs \in If(rr = "ok" /\ AllOkOrBad(ds1), SendAns, "ok") :
            Finish(u, Event(u, "command", "start", <<>>, 0),
                   [K0 EXCEPT !.ds1 = ds1, !.rr = rr, !.ds = ds, !.rs = rs])

\* /menu in MAIN_MENU, /back in ANALYZING and UPLOADING
MenuCommand(u) ==
    \E cmd \in {"menu", "back"} :
        /\ InConversation(conv[u], Event(u, "command", cmd, <<>>, 0))
        /\ \E ds \in DelAnsScripts(Ctx(u), u, DefaultMaxKeep), rs \in SendAns :
               Finish(u, Event(u, "command", cmd, <<>>, 0), [K0 EXCEPT !.ds = ds, !.rs = rs])

\* /cancel: the fallback of every state
Cancel(u) ==
    /\ conv[u] \in ConvStates
    /\ \E rs \in SendAns :
           Finish(u, Event(u, "command", "cancel", <<>>, 0), [K0 EXCEPT !.rs = rs])

\* /help: handled outside the conversation, in every state
Help(u) ==
    \E rs \in If(u \in DOMAIN user_data, SendAns, "ok") :
        Finish(u, Event(u, "command", "help", <<>>, 0), [K0 EXCEPT !.rs = rs])

\* /language: handled outside the conversation, in every state
LanguageCommand(u) ==
    \E rr \in RawAns :
        Finish(u, Event(u, "command", "language", <<>>, 0), [K0 EXCEPT !.rr = rr])

\* a text message in MAIN_MENU or UPLOADING
TextMessage(u) ==
    /\ conv[u] \in {MAIN_MENU, UPLOADING}
    /\ \E text \in UserTexts, rs \in SendAns :
           Finish(u, Event(u, "text", "", text, 0), [K0 EXCEPT !.rs = rs])

\* a text message in ANALYZING: handle_analysis_prompt
TextPrompt(u) ==
    /\ conv[u] = ANALYZING
    /\ \E text \in UserTexts, rs \in SendAns :
        LET s == user_data[u]
            run == s.current_file # NoneV /\ HasKey(s.files, s.current_file) /\ rs = "ok"
        IN  \E rb \in If(run, BackendAns, Failed) :
            \E tr \in If(rb.ok /\ s.language = "vi", TranslatorAns, Failed) :
            \E rd \in If(rb.ok, DelAns, "ok") :
            \E rsf \in If(rb.ok, [1..NumParts(Rendered(s.language, rb.text, tr)) -> SendAns],
                          <<>>) :
            \E rs2 \in If(rb.ok /\ AllOk(rsf), SendAns, "ok") :
                LET failed == run /\ ~(rb.ok /\ AllOk(rsf) /\ rs2 = "ok")
                IN  \E rd2 \in If(failed, DelAns, "ok") :
                    \E rs3 \in If(failed, SendAns, "ok") :
                        Finish(u, Event(u, "text", "", text, 0),
                               [K0 EXCEPT !.rs = rs, !.rb = rb, !.tr = tr, !.rd = rd,
                                          !.rsf = rsf, !.rs2 = rs2, !.rd2 = rd2, !.rs3 = rs3])

\* a PDF document in MAIN_MENU (handle_pdf) or UPLOADING (handle_pdf_in_upload)
Document(u) ==
    /\ conv[u] \in {MAIN_MENU, UPLOADING}
    /\ \E file_name \in Labels, rs \in SendAns :
        \E rg \in If(rs = "ok", BoolAns, TRUE) :
        \E rdl \in If(rs = "ok" /\ rg, BoolAns, TRUE) :
        \E re \in If(rs = "ok" /\ rg /\ rdl, EditAns, "ok") :
        \E rb \in If(rs = "ok" /\ rg /\ rdl /\ EOk(re), UploadAns, Failed) :
        \E re2 \in If(rb.ok, EditAns, "ok") :
        \E re3 \in If(rs = "ok" /\ rg /\ ~(rb.ok /\ EOk(re2)), EditAns, "ok") :
            Finish(u, Event(u, "document", "", file_name, 0),
                   [K0 EXCEPT !.rs = rs, !.rg = rg, !.rdl = rdl, !.re = re, !.rb = rb,
                              !.re2 = re2, !.re3 = re3])

\* the answers to query.answer of the except clause of handle_callback_query
ExceptAns(u, q, data, k) ==
    If(Within(k) /\ callback_route(Ctx(u), u, q, data, k).exc # "", RawAns, "ok")

\* the button payloads whose handling ends in show_menu only
IsMenuPayload(data) ==
    data = P_menu_back \/ data = P_analyze_back \/ StartsWith(data, PFX_lang)

\* the button payloads that start an analysis of the current file
IsAnalysisRun(s, data) ==
    /\ StartsWith(data, PFX_analyze) /\ data # P_analyze_back
    /\ s.current_file # NoneV /\ HasKey(s.files, s.current_file)

\* the button payloads that start a comparison of the selected files
IsCompareRun(s, data) ==
    /\ ~StartsWith(data, PFX_analyze) /\ ~StartsWith(data, PFX_menu)
    /\ StartsWith(data, PFX_compare) /\ ~StartsWith(data, PFX_compare_select)
    /\ data # P_compare_execute
    /\ Len(s.compare_selection) >= 2 /\ AllKeys(s.files, s.compare_selection)

\* a button press whose handling makes one edit at most
CallbackSimple(u) ==
    /\ conv[u] \in {MAIN_MENU, ANALYZING}
    /\ \E q \in DOMAIN live[u] : \E data \in live[u][q] :
        /\ ~IsMenuPayload(data)
        /\ ~IsAnalysisRun(user_data[u], data)
        /\ ~IsCompareRun(user_data[u], data)
        /\ \E ra \in RawAns :
           \E re \in If(ra = "ok", EditAns, "ok") :
           \E ra3 \in ExceptAns(u, q, data, [K0 EXCEPT !.ra = ra, !.re = re]) :
               Finish(u, Event(u, "callback", "", data, q),
                      [K0 EXCEPT !.ra = ra, !.re = re, !.ra3 = ra3])

\* a button press that leads back to the menu: menu_back, analyze_back, and
\* every button in LANGUAGE_SELECTION
CallbackMenu(u) ==
    /\ conv[u] \in {MAIN_MENU, ANALYZING, LANGUAGE_SELECTION}
    /\ \E q \in DOMAIN live[u] : \E data \in live[u][q] :
        /\ IF conv[u] = LANGUAGE_SELECTION THEN TRUE ELSE IsMenuPayload(data)
        /\ \E ra \in RawAns :
           \E rr \in If(ra = "ok" /\ StartsWith(data, PFX_lang), RawAns, "ok") :
           \E ds \in If(ra = "ok" /\ rr = "ok", DelAnsScripts(Ctx(u), u, DefaultMaxKeep),
                        <<>>) :
           \E ra2 \in If(ra = "ok" /\ rr = "ok" /\ AllOkOrBad(ds), RawAns, "ok") :
           \E re \in If(ra = "ok" /\ rr = "ok" /\ AllOkOrBad(ds) /\ ra2 = "ok", EditAns,
                        "ok") :
           \E rs \in If(\/ ra2 = "badreq" \/ re = "badreq"
                        \/ InSeq(q, messages_to_delete(Ctx(u), u, DefaultMaxKeep)),
                        SendAns, "ok") :
               LET k1 == [K0 EXCEPT !.ra = ra, !.rr = rr, !.ds = ds, !.ra2 = ra2, !.re = re,
                                    !.rs = rs]
               IN  \E ra3 \in If(conv[u] # LANGUAGE_SELECTION, ExceptAns(u, q, data, k1),
                                 "ok") :
                       Finish(u, Event(u, "callback", "", data, q), [k1 EXCEPT !.ra3 = ra3])

\* a button press that starts an analysis of the current file
CallbackAnalysis(u) ==
    /\ conv[u] \in {MAIN_MENU, ANALYZING}
    /\ \E q \in DOMAIN live[u] : \E data \in live[u][q] :
        /\ IsAnalysisRun(user_data[u], data)
        /\ LET s == user_data[u] IN
           \E ra \in RawAns :
           \E re \in If(ra = "ok", EditAns, "ok") :
           \E rb \in If(ra = "ok" /\ EOk(re), BackendAns, Failed) :
           \E tr \in If(rb.ok /\ s.language = "vi", TranslatorAns, Failed) :
           \E rd \in If(rb.ok, DelAns, "ok") :
           \E rsf \in If(rb.ok, [1..NumParts(Rendered(s.language, rb.text, tr)) -> SendAns],
                         <<>>) :
           \E rs \in If(rb.ok /\ AllOk(rsf), SendAns, "ok") :
           \E re3 \in If(ra = "ok" /\ EOk(re) /\ ~(rb.ok /\ AllOk(rsf) /\ rs = "ok"),
                         EditAns, "ok") :
               LET k1 == [K0 EXCEPT !.ra = ra, !.re = re, !.rb = rb, !.tr = tr, !.rd = rd,
                                    !.rsf = rsf, !.rs = rs, !.re3 = re3]
               IN  \E ra3 \in ExceptAns(u, q, data, k1) :
                       Finish(u, Event(u, "callback", "", data, q), [k1 EXCEPT !.ra3 = ra3])

\* the context in which a comparison calls show_menu
compare_premenu(c, u, q, k) ==
    compare_try(Edit(c, q, "processing", NoKeyboard, k.re), u, q, <<>>, NoPrompt, k)

\* a button press that starts a comparison of the selected files
CallbackCompare(u) ==
    /\ conv[u] \in {MAIN_MENU, ANALYZING}
    /\ \E q \in DOMAIN live[u] : \E data \in live[u][q] :
        /\ IsCompareRun(user_data[u], data)
        /\ LET s == user_data[u] IN
           \E ra \in RawAns :
           \E re \in If(ra = "ok", EditAns, "ok") :
           \E rb \in If(ra = "ok" /\ EOk(re), BackendAns, Failed) :
           \E tr \in If(rb.ok /\ s.language = "vi", TranslatorAns, Failed) :
           \E rd \in If(rb.ok, DelAns, "ok") :
           \E rsf \in If(rb.ok, [1..NumParts(Rendered(s.language, rb.text, tr)) -> SendAns],
                         <<>>) :
               LET k1 == [K0 EXCEPT !.ra = ra, !.re = re, !.rb = rb, !.tr = tr, !.rd = rd,
                                    !.rsf = rsf]
                   sent == rb.ok /\ AllOk(rsf)
               IN  \E ds \in If(sent, DelAnsScripts(compare_premenu(Ctx(u), u, q, k1), u,
                                                   DefaultMaxKeep), <<>>) :
                   \E ra2 \in If(sent /\ AllOkOrBad(ds), RawAns, "ok") :
                   \E re2 \in If(sent /\ AllOkOrBad(ds) /\ ra2 = "ok", EditAns, "ok") :
                   \E rs2 \in If(sent /\ AllOkOrBad(ds), SendAns, "ok") :
                   \E re3 \in If(ra = "ok" /\ EOk(re), EditAns, "ok") :
                       LET k2 == [k1 EXCEPT !.ds = ds, !.ra2 = ra2, !.re2 = re2, !.rs2 = rs2,
                                            !.re3 = re3]
                       IN  \E ra3 \in ExceptAns(u, q, data, k2) :
                               Finish(u, Event(u, "callback", "", data, q),
                                      [k2 EXCEPT !.ra3 = ra3])

\* an update that no handler accepts: nothing is done
Unhandled(u) ==
    \E e \in {Event(u, "command", cmd, <<>>, 0) : cmd \in {"menu", "back", "cancel"}}
             \cup {Event(u, "text", "", text, 0) : text \in UserTexts}
             \cup {Event(u, "document", "", LabelA, 0)}
             \cup {Event(u, "callback", "", P_menu_back, q) : q \in DOMAIN live[u]} :
        /\ ~Handled(conv[u], e)
        /\ Finish(u, e, K0)

Next ==
    \/ Guided
    \/ \E u \in Users :
        \/ Start(u)
        \/ MenuCommand(u)
        \/ Cancel(u)
        \/ Help(u)
        \/ LanguageCommand(u)
        \/ TextMessage(u)
        \/ TextPrompt(u)
        \/ Document(u)
        \/ CallbackSimple(u)
        \/ CallbackMenu(u)
        \/ CallbackAnalysis(u)
        \/ CallbackCompare(u)
        \/ Unhandled(u)

Spec == Init /\ [][Next]_vars

(***************************************************************************)
(* The gateway on its own: one call of send_safe_message or of             *)
(* edit_safe_message, the transport answering the attempts by a script.    *)
(***************************************************************************)
CallSend ==
    /\ \E sc \in [1..3 -> SendOutcomes] :
           probe' = Probe("send_safe_message", sc, send_safe_message(sc))
    /\ UNCHANGED botvars

CallEdit ==
    /\ \E sc \in [1..3 -> EditOutcomes] :
           probe' = Probe("edit_safe_message", sc, edit_safe_message(sc))
    /\ UNCHANGED botvars

NextGateway == CallSend \/ CallEdit

SpecGateway == Init /\ [][NextGateway]_vars

(***************************************************************************)
(* cleanup_messages called on its own, for every list of tracked messages, *)
(* every max_keep and every behaviour of bot.delete_message.               *)
(***************************************************************************)
\* the run in which u1's session tracks the messages 1..n, all in the chat
Tracking(n) ==
    [ud |-> [u \in {"u1"} |-> [NewSession EXCEPT !.messages = [i \in 1..n |-> i]]],
     live |-> [i \in 1..n |-> NoKeyboard], nid |-> n + 1, nh |-> 1,
     out |-> <<>>, calls |-> <<>>, exc |-> "", last |-> 0, ret |-> MAIN_MENU, nf |-> 0]

\* what a call of cleanup_messages did: the list it left, the messages it
\* deleted, the number of delete_message calls it made (those that deleted
\* and those that raised) and the exception it raised
Cleaned(c) ==
    [messages |-> c.ud["u1"].messages,
     deleted |-> {c.out[i].msg : i \in 1..Len(c.out)},
     requests |-> Len(c.out) + c.nf,
     exc |-> c.exc]

CallCleanup ==
    /\ \E n \in 0..MaxTracked, k \in 0..MaxKeepCount, ds \in [1..MaxTracked -> RawRets] :
           probe' = Probe("cleanup_messages", [n |-> n, max_keep |-> k, ds |-> ds],
                          Cleaned(cleanup_messages(Tracking(n), "u1", k, ds)))
    /\ UNCHANGED botvars

NextCleanup == CallCleanup

SpecCleanup == Init /\ [][NextCleanup]_vars

(***************************************************************************)
(* sanitize_html.  A text is a string; the passes of the function are      *)
(* computed character by character, as str.replace and re.sub compute     *)
(* them: the leftmost match is replaced and the scan resumes behind it.    *)
(***************************************************************************)
CharAt(t, i) == SubSeq(t, i, i)

\* t[i:].startswith(p)
StartsAt(t, i, p) ==
    /\ i >= 1
    /\ i + Len(p) - 1 <= Len(t)
    /\ SubSeq(t, i, i + Len(p) - 1) = p

\* p in t
Occurs(t, p) == \E i \in 1..Len(t) : StartsAt(t, i, p)

\* the first position from i on where one of the strings ps starts, 0 if none
IndexFrom(t, i, ps) ==
    LET hits == {j \in i..Len(t) : \E p \in ps : StartsAt(t, j, p)}
    IN  IF hits = {} THEN 0 ELSE CHOOSE j \in hits : \A k \in hits : j <= k

\* \s
Whitespace == {" ", "\t", "\n", "\r", "\f"}

\* the first position from i on that holds no whitespace
RECURSIVE SkipWhitespace(_, _)
SkipWhitespace(t, i) ==
    IF i <= Len(t) /\ CharAt(t, i) \in Whitespace THEN SkipWhitespace(t, i + 1) ELSE i

\* the last newline of the whitespace that starts at i, 0 if it has none
LastNewline(t, i) ==
    LET nls == {j \in i..(SkipWhitespace(t, i) - 1) : CharAt(t, j) = "\n"}
    IN  IF nls = {} THEN 0 ELSE CHOOSE j \in nls : \A k \in nls : j >= k

\* the first position from i on that holds no newline
RECURSIVE SkipNewlines(_, _)
SkipNewlines(t, i) ==
    IF i <= Len(t) /\ CharAt(t, i) = "\n" THEN SkipNewlines(t, i + 1) ELSE i

\* html.escape(text), quote=True
EscapeChar(ch) ==
    CASE ch = "&" -> "&amp;"
      [] ch = "<" -> "&lt;"
      [] ch = ">" -> "&gt;"
      [] ch = "\"" -> "&quot;"
      [] ch = "'" -> "&#x27;"
      [] OTHER -> ch

RECURSIVE EscapeFrom(_, _)
EscapeFrom(t, i) ==
    IF i > Len(t) THEN "" ELSE EscapeChar(CharAt(t, i)) \o EscapeFrom(t, i + 1)

html_escape(t) == EscapeFrom(t, 1)

\* The patterns of the function.
\*   Lit(old, new)                 old                       -> new
\*   Open(open, rep)               open[^>]*>                -> rep
\*   Pair(opens, closes, pre, post)  open[^>]*>(.*?)close    -> pre \1 post
\*   Attr(tag)                     &lt;tag\s+([^&]*)&gt;     -> <tag \1>
\*   Href                          &lt;a\s+href=&quot;([^&]*)&quot;&gt;
\*                                                           -> <a href="\1">
\*   AnyTag                        <[^>]+>                   -> (nothing)
\*   Blank                         \n\s*\n                   -> \n\n
\*   Newlines                      \n{3,}                    -> \n\n
Lit(old, new) == [kind |-> "lit", old |-> old, new |-> new]
Open(open, rep) == [kind |-> "open", open |-> open, rep |-> rep]
Pair(opens, closes, pre, post) ==
    [kind |-> "pair", opens |-> opens, closes |-> closes, pre |-> pre, post |-> post]
Attr(tag) == [kind |-> "attr", tag |-> tag]
Href == [kind |-> "href"]
AnyTag == [kind |-> "anytag"]
Blank == [kind |-> "blank"]
Newlines == [kind |-> "newlines"]

\* a match: the position of its last character and what replaces it
Matched(to, rep) == [to |-> to, rep |-> rep]
NoMatch == Matched(0, "")

\* the group (.*?) that starts at g and ends before the first close
PairBody(rx, t, g) ==
    LET c == IndexFrom(t, g, rx.closes)
    IN  IF c = 0 THEN NoMatch
        ELSE LET close == CHOOSE p \in rx.closes : StartsAt(t, c, p)
             IN  Matched(c + Len(close) - 1, rx.pre \o SubSeq(t, g, c - 1) \o rx.post)

\* the group ([^&]*) that starts at g and ends at the first "&", which has
\* to open the string last
UpToAmp(t, g, last, pre, post) ==
    LET a == IndexFrom(t, g, {"&"})
    IN  IF a # 0 /\ StartsAt(t, a, last)
        THEN Matched(a + Len(last) - 1, pre \o SubSeq(t, g, a - 1) \o post)
        ELSE NoMatch

\* the match of pattern rx that starts at position i of t
MatchAt(rx, t, i) ==
    CASE rx.kind = "lit" ->
           IF StartsAt(t, i, rx.old) THEN Matched(i + Len(rx.old) - 1, rx.new) ELSE NoMatch
      [] rx.kind = "open" ->
           IF StartsAt(t, i, rx.open) /\ IndexFrom(t, i + Len(rx.open), {">"}) # 0
           THEN Matched(IndexFrom(t, i + Len(rx.open), {">"}), rx.rep)
           ELSE NoMatch
      [] rx.kind = "pair" ->
           IF \E o \in rx.opens :
                  StartsAt(t, i, o) /\ IndexFrom(t, i + Len(o), {">"}) # 0
           THEN LET o == CHOOSE p \in rx.opens : StartsAt(t, i, p)
                IN  PairBody(rx, t, IndexFrom(t, i + Len(o), {">"}) + 1)
           ELSE NoMatch
      [] rx.kind = "attr" ->
           LET s == i + Len("&lt;" \o rx.tag)
           IN  IF StartsAt(t, i, "&lt;" \o rx.tag) /\ SkipWhitespace(t, s) > s
               THEN UpToAmp(t, SkipWhitespace(t, s), "&gt;", "<" \o rx.tag \o " ", ">")
               ELSE NoMatch
      [] rx.kind = "href" ->
           LET s == i + Len("&lt;a")
               h == SkipWhitespace(t, s)
           IN  IF StartsAt(t, i, "&lt;a") /\ h > s /\ StartsAt(t, h, "href=&quot;")
               THEN UpToAmp(t, h + Len("href=&quot;"), "&quot;&gt;", "<a href=\"", "\">")
               ELSE NoMatch
      [] rx.kind = "anytag" ->
           LET g == IndexFrom(t, i + 1, {">"})
           IN  IF StartsAt(t, i, "<") /\ g > i + 1 THEN Matched(g, "") ELSE NoMatch
      [] rx.kind = "blank" ->
           IF StartsAt(t, i, "\n") /\ LastNewline(t, i + 1) # 0
           THEN Matched(LastNewline(t, i + 1), "\n\n")
           ELSE NoMatch
      [] rx.kind = "newlines" ->
           IF StartsAt(t, i, "\n") /\ SkipNewlines(t, i) >= i + 3
           THEN Matched(SkipNewlines(t, i) - 1, "\n\n")
           ELSE NoMatch

\* the first character a match of rx starts with
FirstChar(rx) ==
    CASE rx.kind = "lit" -> CharAt(rx.old, 1)
      [] rx.kind = "open" -> CharAt(rx.open, 1)
      [] rx.kind \in {"pair", "anytag"} -> "<"
      [] rx.kind \in {"attr", "href"} -> "&"
      [] rx.kind \in {"blank", "newlines"} -> "\n"

\* re.sub(rx, replacement, text) and text.replace(old, new)
RECURSIVE SubFrom(_, _, _)
SubStep(rx, t, i, m) ==
    IF m.to = 0 THEN CharAt(t, i) \o SubFrom(rx, t, i + 1)
    ELSE m.rep \o SubFrom(rx, t, m.to + 1)

SubFrom(rx, t, i) ==
    IF i > Len(t) THEN ""
    ELSE IF CharAt(t, i) # FirstChar(rx) THEN CharAt(t, i) \o SubFrom(rx, t, i + 1)
    ELSE SubStep(rx, t, i, MatchAt(rx, t, i))

Sub(rx, t) == IF Occurs(t, FirstChar(rx)) THEN SubFrom(rx, t, 1) ELSE t

\* the patterns rxs applied one after the other (no pattern matches in the
\* empty text)
RECURSIVE SubAll(_, _, _)
SubAll(rxs, t, i) ==
    IF t = "" \/ i > Len(rxs) THEN t ELSE SubAll(rxs, Sub(rxs[i], t), i + 1)

\* lines 134-139: the tags Telegram supports are unescaped
SupportedTags == <<"b", "i", "u", "s", "code", "pre", "a">>

Unescape(tag) ==
    <<Lit("&lt;" \o tag \o "&gt;", "<" \o tag \o ">"),
      Lit("&lt;/" \o tag \o "&gt;", "</" \o tag \o ">"),
      Attr(tag)>>

RECURSIVE UnescapeAll(_, _)
UnescapeAll(t, i) ==
    IF t = "" \/ i > Len(SupportedTags) THEN t
    ELSE UnescapeAll(SubAll(Unescape(SupportedTags[i]), t, 1), i + 1)

\* the value None of an entry of unsupported_tags (no tag is named "None")
Dropped == "None"

\* self.unsupported_tags, in the order of the dictionary; the dashes of the
\* "hr" entry stand for the five dashes of the source
unsupported_tags ==
    <<<<"sub", "_">>, <<"sup", "^">>, <<"h1", "b">>, <<"h2", "b">>, <<"h3", "b">>,
      <<"h4", "b">>, <<"h5", "b">>, <<"h6", "b">>, <<"em", "i">>, <<"strong", "b">>,
      <<"table", Dropped>>, <<"tr", Dropped>>, <<"td", Dropped>>, <<"th", Dropped>>,
      <<"thead", Dropped>>, <<"tbody", Dropped>>, <<"div", Dropped>>, <<"span", Dropped>>,
      <<"p", Dropped>>, <<"br", "\n">>, <<"hr", "\n-----\n">>, <<"img", "[IMAGE]">>,
      <<"figure", Dropped>>, <<"figcaption", "i">>>>

\* lines 146-156: the passes made for one entry of unsupported_tags
Unsupported(tag, replacement) ==
    IF replacement = Dropped
    THEN <<Pair({"<" \o tag}, {"</" \o tag \o ">"}, "", ""),
           Open("<" \o tag, ""),
           Lit("</" \o tag \o ">", "")>>
    ELSE IF replacement = "\n"
    THEN <<Open("<" \o tag, replacement)>>
    ELSE <<Pair({"<" \o tag}, {"</" \o tag \o ">"},
                "<" \o replacement \o ">", "</" \o replacement \o ">")>>

RECURSIVE UnsupportedAll(_, _)
UnsupportedAll(t, i) ==
    IF t = "" \/ i > Len(unsupported_tags) THEN t
    ELSE UnsupportedAll(
             SubAll(Unsupported(unsupported_tags[i][1], unsupported_tags[i][2]), t, 1),
             i + 1)

\* lines 162-203: the entries of math_replacements made of ASCII characters;
\* the keys of the other entries (Greek letters, mathematical symbols) hold
\* characters that are in no text drawn from Pieces and replace nothing there
math_replacements ==
    <<Lit("<sub>", "_"), Lit("</sub>", ""), Lit("<sup>", "^"), Lit("</sup>", "")>>

\* re.finditer(r'<table[^>]*>(.*?)</table>', text): the matches from i on,
\* each with the text matched and its group
RECURSIVE TablesFrom(_, _)
TableAt(t, i, m) ==
    IF m.to = 0 THEN TablesFrom(t, i + 1)
    ELSE <<[whole |-> SubSeq(t, i, m.to), content |-> m.rep]>> \o TablesFrom(t, m.to + 1)

TablesFrom(t, i) ==
    IF i > Len(t) THEN <<>>
    ELSE TableAt(t, i, MatchAt(Pair({"<table"}, {"</table>"}, "", ""), t, i))

\* lines 211-216: rows end with a newline, cells with a tab
TableText(content) ==
    SubAll(<<Pair({"<tr"}, {"</tr>"}, "", "\n"),
             Pair({"<th", "<td"}, {"</th>", "</td>"}, "", "\t")>>, content, 1)

RECURSIVE ReplaceTables(_, _, _)
ReplaceTables(t, ms, i) ==
    IF i > Len(ms) THEN t
    ELSE ReplaceTables(Sub(Lit(ms[i].whole, "\n" \o TableText(ms[i].content) \o "\n"), t),
                       ms, i + 1)

\* lines 207-216
Tables(t) == IF Occurs(t, "<table") THEN ReplaceTables(t, TablesFrom(t, 1), 1) ELSE t

\* lines 131-216: the text before the remaining tags are removed
Unstripped(text) ==
    Tables(SubAll(<<Lit("&lt;", "<"), Lit("&gt;", ">")>> \o math_replacements,
                  UnsupportedAll(Sub(Href, UnescapeAll(html_escape(text), 1)), 1),
                  1))

\* a sanitize_html that leaves the remaining tags in the text
KeepingTags(text) ==
    IF text = "" THEN "" ELSE SubAll(<<Blank, Newlines>>, Unstripped(text), 1)

\* sanitize_html
sanitize_html(text) ==
    IF text = "" THEN "" ELSE SubAll(<<AnyTag, Blank, Newlines>>, Unstripped(text), 1)

\* the pieces the texts given to sanitize_html are made of: plain text, the
\* characters html.escape rewrites, a newline, supported tags, a table and
\* tags that are not supported, one of each kind of entry of unsupported_tags
Pieces ==
    {"x", "&", "<", ">", "\"", "\n", "<b>", "</b>", "<a href=\"x\">", "</a>",
     "<pre>", "<table>", "</table>", "<div>", "<em>", "</em>", "<br>", "<hr>", "<img>"}

\* the text made of the pieces ps
RECURSIVE Joined(_)
Joined(ps) == IF ps = <<>> THEN "" ELSE Head(ps) \o Joined(Tail(ps))

\* the texts of at most MaxPieces pieces, as lists of pieces
Texts == UNION {[1..n -> Pieces] : n \in 0..MaxPieces}

\* a text is drawn; nothing has been done with it yet
InitSanitize ==
    /\ user_data = Bot0.ud
    /\ conv = Bot0.conv
    /\ live = Bot0.live
    /\ nextId = Bot0.nid
    /\ nextHandle = Bot0.nh
    /\ pyhash \in [LongLabels -> HashValues]
    /\ faults = 0
    /\ steps = 0
    /\ trail = <<>>
    /\ ev = Event("", "", "", <<>>, 0)
    /\ out = <<>>
    /\ calls = <<>>
    /\ raised = FALSE
    /\ before = Found("u1")
    /\ probe \in {Probe("text", ps, <<>>) : ps \in Texts}

\* sanitize_html(text) and sanitize_html of what it returned
Sanitized(text, once) ==
    [text |-> text, once |-> once, twice |-> sanitize_html(once)]

CallSanitize ==
    /\ probe.fn = "text"
    /\ probe' = Probe("sanitize_html", probe.arg,
                      Sanitized(Joined(probe.arg), sanitize_html(Joined(probe.arg))))
    /\ UNCHANGED botvars

NextSanitize == CallSanitize

SpecSanitize == InitSanitize /\ [][NextSanitize]_vars

(***************************************************************************)
(* split_and_send_long_message called on its own, for texts around the     *)
(* limit of 4000 characters, with and without title.                       *)
(***************************************************************************)
\* the pieces of the texts: words (one of them longer than max_length), a
\* sentence end, a space, newlines
RunPieces ==
    {Run("w", 1), Run("w", 1999), Run("w", 3999), Run("w", 4001), Run(".", 1),
     Run(" ", 1), Run("nl", 1), Run("nl", 2), Run("nl", 4002)}

LongTexts == {Norm(ps) : ps \in UNION {[1..n -> RunPieces] : n \in 0..MaxRuns}}

Titles == {<<>>, <<Run("w", 1)>>}

Controls == {NoKeyboard, BackKeyboard}

\* a text, a title and the caller's reply_markup are drawn
InitChunker ==
    /\ user_data = Bot0.ud
    /\ conv = Bot0.conv
    /\ live = Bot0.live
    /\ nextId = Bot0.nid
    /\ nextHandle = Bot0.nh
    /\ pyhash \in [LongLabels -> HashValues]
    /\ faults = 0
    /\ steps = 0
    /\ trail = <<>>
    /\ ev = Event("", "", "", <<>>, 0)
    /\ out = <<>>
    /\ calls = <<>>
    /\ raised = FALSE
    /\ before = Found("u1")
    /\ probe \in {Probe("chunk", [text |-> t, title |-> ti, reply_markup |-> ctl], <<>>) :
                     t \in LongTexts, ti \in Titles, ctl \in Controls}

CallChunker ==
    /\ probe.fn = "chunk"
    /\ probe' = Probe("split_and_send_long_message", probe.arg,
                      [messages |-> ChunkMessages(probe.arg.text, probe.arg.title,
                                                  probe.arg.reply_markup),
                       bodies |-> ChunkBodies(probe.arg.text)])
    /\ UNCHANGED botvars

NextChunker == CallChunker

SpecChunker == InitChunker /\ [][NextChunker]_vars

(***************************************************************************)
(* The dispatcher.  run_polling puts the updates in the update queue; the  *)
(* application takes them from it one by one and runs the handler of each. *)
(* A handler is a coroutine: it runs from one await to the next without    *)
(* interruption and may be suspended at each await.  The application       *)
(* awaits the handler of an update before it takes the next update unless  *)
(* it was built with concurrent_updates or the handler was registered      *)
(* with block=False.                                                       *)
(***************************************************************************)
\* an application built with concurrent_updates(True)
ConcurrentApplication == TRUE

\* line 46: Application.builder().token(TELEGRAM_TOKEN).build(), without
\* concurrent_updates
concurrent_updates == FALSE

\* lines 82-119: no handler is registered with block=False
block == TRUE

Senders == {"u1", "u2"}

\* what a handler does between two awaits: it reads the session, calls a
\* collaborator (download, backend), writes the session, delivers a message
HandlerSteps == <<"read", "call", "write", "deliver">>

\* the dispatcher: the senders of the updates that arrived (the update with
\* id i is the i-th), the ids waiting in the update queue, the handlers that
\* run with the number of steps each has made, and the steps made so far
Dispatching(arrived, update_queue, running, log) ==
    [arrived |-> arrived, update_queue |-> update_queue, running |-> running, log |-> log]

InitDispatch ==
    /\ user_data = Bot0.ud
    /\ conv = Bot0.conv
    /\ live = Bot0.live
    /\ nextId = Bot0.nid
    /\ nextHandle = Bot0.nh
    /\ pyhash \in [LongLabels -> HashValues]
    /\ faults = 0
    /\ steps = 0
    /\ trail = <<>>
    /\ ev = Event("", "", "", <<>>, 0)
    /\ out = <<>>
    /\ calls = <<>>
    /\ raised = FALSE
    /\ before = Found("u1")
    /\ probe = Probe("dispatch", <<>>, Dispatching(<<>>, <<>>, <<>>, <<>>))

\* an update of user u arrives
Arrive ==
    /\ probe.fn = "dispatch"
    /\ Len(probe.res.arrived) < MaxUpdates
    /\ \E u \in Senders :
           probe' = [probe EXCEPT
                        !.res.arrived = Append(@, u),
                        !.res.update_queue = Append(@, Len(probe.res.arrived) + 1)]
    /\ UNCHANGED botvars

\* the application takes the next update and starts its handler
Fetch ==
    /\ probe.fn = "dispatch"
    /\ probe.res.update_queue # <<>>
    /\ concurrent_updates \/ ~block \/ probe.res.running = <<>>
    /\ probe' = [probe EXCEPT
                    !.res.update_queue = Tail(@),
                    !.res.running = Append(@, [id |-> Head(probe.res.update_queue), pc |-> 0])]
    /\ UNCHANGED botvars

\* the running handlers but the i-th
Without(running, i) == SubSeq(running, 1, i - 1) \o SubSeq(running, i + 1, Len(running))

\* a handler that runs makes its next step, up to its next await or its end
HandlerStep ==
    /\ probe.fn = "dispatch"
    /\ \E i \in 1..Len(probe.res.running) :
           LET h == probe.res.running[i]
           IN  probe' = [probe EXCEPT
                   !.res.log = Append(@, [id |-> h.id, user |-> probe.res.arrived[h.id],
                                          step |-> HandlerSteps[h.pc + 1]]),
                   !.res.running = IF h.pc + 1 = Len(HandlerSteps) THEN Without(@, i)
                                   ELSE [@ EXCEPT ![i].pc = h.pc + 1]]
    /\ UNCHANGED botvars

NextDispatch == Arrive \/ Fetch \/ HandlerStep

SpecDispatch == InitDispatch /\ [][NextDispatch]_vars

(***************************************************************************)
(* Callback identifiers on their own: for a files dictionary and a value   *)
(* of hash() for each long name, the identifier of every name is made and  *)
(* looked up again.                                                        *)
(***************************************************************************)
\* the string of n characters ch
Rep(ch, n) == [i \in 1..n |-> ch]

\* two names of 33 characters with the same first 28 characters
NameLongX == Rep("p", 28) \o Rep("x", 5)
NameLongY == Rep("p", 28) \o Rep("y", 5)

\* a name that reads like the identifier of a long name, and one that
\* starts with it
NameLikeId == Rep("p", 28) \o <<"_", "3", "4">>
NameLikeIdZ == Rep("p", 28) \o <<"_", "3", "4", "z">>

\* the names of the files: two short names, one a prefix of the other, and
\* the names above
Names == {<<"a">>, <<"a", "b">>, NameLongX, NameLongY, NameLikeId, NameLikeIdZ}

\* the files dictionaries of at most MaxFiles names, in every order
FilesOver(names) ==
    {f \in UNION {[1..n -> names] : n \in 0..MaxFiles} :
        \A i, j \in 1..Len(f) : i # j => f[i] # f[j]}

\* the dictionary whose keys are names, in that order
AsFiles(names) == [i \in 1..Len(names) |-> [name |-> names[i], ref |-> i]]

\* a files dictionary and the hash values are drawn
InitIdentifiers ==
    /\ user_data = Bot0.ud
    /\ conv = Bot0.conv
    /\ live = Bot0.live
    /\ nextId = Bot0.nid
    /\ nextHandle = Bot0.nh
    /\ pyhash \in [{f \in Names : Len(f) > 32} -> HashValues]
    /\ faults = 0
    /\ steps = 0
    /\ trail = <<>>
    /\ ev = Event("", "", "", <<>>, 0)
    /\ out = <<>>
    /\ calls = <<>>
    /\ raised = FALSE
    /\ before = Found("u1")
    /\ probe \in {Probe("files", AsFiles(f), <<>>) : f \in FilesOver(Names)}

\* the name found for the identifier of every name of the dictionary
RoundTrips(files) ==
    [f \in KeySet(files) |-> _get_filename_from_id(files, _safe_callback_data(f))]

CallIdentifiers ==
    /\ probe.fn = "files"
    /\ probe' = Probe("_get_filename_from_id", probe.arg, RoundTrips(probe.arg))
    /\ UNCHANGED botvars

NextIdentifiers == CallIdentifiers

SpecIdentifiers == InitIdentifiers /\ [][NextIdentifiers]_vars

(***************************************************************************)
(* Properties.  They are stated over the event handled last (ev), the bot  *)
(* as that event found it (before), what the handler delivered (out), the  *)
(* backend calls it made (calls) and the bot as it left it.                *)
(***************************************************************************)
\* the session of the user of the last event, as the event found it and now
HadSession == ev.user \in DOMAIN before.ud
Was == before.ud[ev.user]
Session == user_data[ev.user]

\* the last event is a button press that handle_callback_query took
Press == ev.kind = "callback" /\ before.conv \in {MAIN_MENU, ANALYZING}
Pressed(data) == Press /\ ev.data = data

\* no collaborator failed while the last event was handled
Clean == faults = before.faults

\* the views of the messages the last handler sent, in order
Sends(o) == SelectSeq(o, LAMBDA m : m.op = "send")
Views(o) == [i \in 1..Len(o) |-> o[i].view]

\* the last handler showed view as its last delivery, with the buttons ctl
Showed(view, ctl) ==
    out # <<>> /\ out[Len(out)].view = view /\ out[Len(out)].ctl = ctl
    /\ out[Len(out)].op \in {"send", "edit"}

\* the calls of operation op the last handler made
CallsOf(op) == SelectSeq(calls, LAMBDA r : r.op = op)

\* C1: in every reachable state, the current_file of every session is unset
\* or a key of that session's files.
C1_CurrentFileIsKey ==
    \A u \in DOMAIN user_data :
        \/ user_data[u].current_file = NoneV
        \/ HasKey(user_data[u].files, user_data[u].current_file)

\* the current file has just been deleted while other files remain
C1_Witness ==
    /\ Press /\ StartsWith(ev.data, PFX_menu_delete) /\ HadSession
    /\ Was.current_file # NoneV
    /\ ~HasKey(Session.files, Was.current_file)
    /\ Session.files # <<>>
    /\ Session.current_file = NoneV

\* C2: in every reachable state, every label of a session's
\* compare_selection is a key of that session's files, also after a
\* selected document has been deleted.
C2_SelectionWithinFiles ==
    \A u \in DOMAIN user_data :
        AllKeys(user_data[u].files, user_data[u].compare_selection)

\* C3: a /start handled in any state (MAIN_MENU, UPLOADING, ANALYZING and
\* LANGUAGE_SELECTION among them) whose transport calls all succeed sends
\* the welcome message first, then the menu, nothing else, and leaves the
\* conversation in MAIN_MENU.
C3_RestartShowsMenu ==
    (ev.kind = "command" /\ ev.cmd = "start" /\ ~raised)
        => /\ Views(Sends(out)) = <<"welcome", "menu">>
           /\ conv[ev.user] = MAIN_MENU

\* /start has been handled while a document was awaited
C3_Witness ==
    /\ ev.kind = "command" /\ ev.cmd = "start" /\ ~raised
    /\ before.conv = UPLOADING
    /\ conv[ev.user] = MAIN_MENU
    /\ Views(Sends(out)) = <<"welcome", "menu">>

\* the upload of the last event went through: the last delivery is the
\* view that confirms it
Uploaded == ev.kind = "document" /\ Showed("upload_ok", UploadedKeyboard)

\* C4: a document uploaded successfully in MAIN_MENU into a session without
\* documents leaves the conversation in MAIN_MENU, the uploaded label as the
\* current_file, and files holding exactly that label with the handle the
\* backend returned.
C4_FirstUpload ==
    (Uploaded /\ before.conv = MAIN_MENU /\ HadSession /\ Was.files = <<>>)
        => /\ conv[ev.user] = MAIN_MENU
           /\ Session.current_file = ev.data
           /\ Session.files = <<[name |-> ev.data, ref |-> before.nh]>>

C4_Witness ==
    /\ Uploaded /\ before.conv = MAIN_MENU /\ HadSession /\ Was.files = <<>>
    /\ Session.current_file = ev.data
    /\ Len(Session.files) = 1

\* a request to analyze or to ask: menu_analyze, menu_ask, a button whose
\* payload starts with analyze_, or a text in ANALYZING
ButtonRequest ==
    Press /\ (ev.data \in {P_menu_analyze, P_menu_ask} \/ StartsWith(ev.data, PFX_analyze))
TextRequest == ev.kind = "text" /\ before.conv = ANALYZING
AnalyzeRequest == ButtonRequest \/ TextRequest

\* ... made while the session has no current file
RequestWithoutFile == AnalyzeRequest /\ HadSession /\ Was.current_file = NoneV

\* the request is refused without harm
Refused ==
    /\ CallsOf("analyze") = <<>>
    /\ ~raised
    /\ conv[ev.user] = MAIN_MENU
    /\ Session.files = Was.files
    /\ Session.current_file = Was.current_file

RaisedAfterTwoFailures == raised => faults >= before.faults + 2

\* the button pressed is analyze_back
BackPressed == ButtonRequest /\ ev.data = P_analyze_back

IsCompareType(data) ==
    /\ StartsWith(data, PFX_compare) /\ ~StartsWith(data, PFX_compare_select)
    /\ data # P_compare_execute

\* C6: a compare_execute or compare_<type> button pressed while the
\* compare_selection holds fewer than two labels never calls the backend's
\* compare, in whatever state it arrives.
C6_NoCompareBelowTwo ==
    (/\ ev.kind = "callback"
     /\ (ev.data = P_compare_execute \/ IsCompareType(ev.data))
     /\ HadSession /\ Len(Was.compare_selection) < 2)
        => CallsOf("compare") = <<>>

\* a comparison type pressed on an older message after the selection was
\* emptied
C6_Witness ==
    /\ Pressed(P_compare_general) /\ HadSession /\ Was.compare_selection = <<>>
    /\ Len(Was.files) >= 2
    /\ Showed("not_enough", {P_menu_compare})
    /\ calls = <<>>

\* the handles of the files a session holds, in the order of the uploads
Handles(files) == [i \in 1..Len(files) |-> files[i].ref]

\* the backend's compare has been called once, with the handles refs
ComparedOnce(refs) ==
    /\ Len(CallsOf("compare")) = 1
    /\ CallsOf("compare")[1].refs = refs

\* C7: a user with two documents who enters the comparison flow and presses
\* the compare_select button shown for each of the two documents has both
\* selected and, after compare_execute, is offered the comparison types; a
\* comparison type pressed with two documents selected calls the backend's
\* compare exactly once, with exactly the handles of the selected documents.
C7_BothSelectedAndCompared ==
    /\ trail = TourSelect
           => /\ Handles(Session.files) = FileRefs(Session.files, Session.compare_selection)
              /\ Showed("compare_options", CompareTypeKeyboard)
    /\ (/\ Press /\ IsCompareType(ev.data) /\ HadSession
        /\ Len(Was.compare_selection) = 2 /\ Clean)
           => ComparedOnce(FileRefs(Was.files, Was.compare_selection))

\* the analysis of the last event was announced: the pressed message shows
\* the processing view
Announced == \E i \in 1..Len(out) : out[i].op = "edit" /\ out[i].view = "processing"

\* Summarize is pressed while the session has a current file
SummarizePressed ==
    /\ Pressed(P_analyze_summarize) /\ HadSession
    /\ Was.current_file # NoneV /\ HasKey(Was.files, Was.current_file)

\* the call analyze(h, summarize prompt) for the current file
SummarizeCall ==
    BackendCall("analyze", <<GetItem(Was.files, Was.current_file)>>,
                Canned(Was.language, "summarize"))

\* C8: Summarize pressed while the session has a current file with handle h
\* calls no backend operation but analyze(h, summarize prompt), at most
\* once, and exactly once when the transport accepts the edit that announces
\* the analysis; the conversation is in MAIN_MENU afterwards unless the
\* handler raised, which takes two failed transport calls.
C8_SummarizeAnalyzesOnce ==
    SummarizePressed
        => /\ calls \in {<<>>, <<SummarizeCall>>, <<Failing(SummarizeCall)>>}
           /\ Announced => calls \in {<<SummarizeCall>>, <<Failing(SummarizeCall)>>}
           /\ ~raised => conv[ev.user] = MAIN_MENU
           /\ RaisedAfterTwoFailures

\* Summarize has been pressed and the result delivered
C8_Witness ==
    /\ SummarizePressed
    /\ calls = <<SummarizeCall>>
    /\ Showed("follow_up", FollowUpKeyboard)
    /\ conv[ev.user] = MAIN_MENU

\* the messages that carry the result of an analysis: one message, or the
\* parts of a long result
Chunks == SelectSeq(out, LAMBDA m : m.op = "send" /\ m.view \in {"result", "part"})

\* the analysis of the last event succeeded: the backend answered and the
\* handler reached the end of its try block
AnalysisSucceeded ==
    /\ Press \/ (ev.kind = "text" /\ before.conv = ANALYZING)
    /\ Len(CallsOf("analyze")) = 1
    /\ Showed("follow_up", FollowUpKeyboard)

\* C9 as stated: when an analysis succeeds the last chunk of the result
\* carries the follow-up controls and no earlier chunk carries controls.
C9_LastChunkCarriesControls ==
    AnalysisSucceeded
        => /\ Chunks # <<>>
           /\ Chunks[Len(Chunks)].ctl = FollowUpKeyboard
           /\ \A i \in 1..(Len(Chunks) - 1) : Chunks[i].ctl = NoKeyboard

\* C9, amended: when an analysis succeeds the result is sent as one or more
\* chunks none of which carries controls; the follow-up controls are on a
\* message of its own, sent after the last chunk and nothing after it.
C9_ControlsFollowChunks ==
    AnalysisSucceeded
        => /\ Chunks # <<>>
           /\ \A i \in 1..Len(Chunks) : Chunks[i].ctl = NoKeyboard
           /\ Views(Sends(out))[Len(Sends(out))] = "follow_up"
           /\ Len(Sends(out)) >= 2
           /\ Sends(out)[Len(Sends(out)) - 1] = Chunks[Len(Chunks)]
           /\ Len(SelectSeq(out, LAMBDA m : m.view = "follow_up")) = 1

\* a long result has been delivered in several parts
C9_Witness ==
    /\ AnalysisSucceeded
    /\ Len(Chunks) >= 2
    /\ out[Len(out) - 1] = Chunks[Len(Chunks)]

\* the label whose handle the last handler asked the backend to delete
DeletedLabel(L) ==
    /\ Press /\ StartsWith(ev.data, PFX_menu_delete) /\ HadSession
    /\ HasKey(Was.files, L)
    /\ CallsOf("delete") = <<BackendCall("delete", <<GetItem(Was.files, L)>>, NoPrompt)>>

\* C10: deleting a label L of files removes L from files and leaves every
\* other label with its handle, in the same order; current_file becomes
\* unset if it was L and is unchanged otherwise.
C10_DeleteOneLabel ==
    \A L \in Labels :
        DeletedLabel(L)
            => /\ Session.files = SelectSeq(Was.files, LAMBDA f : f.name # L)
               /\ ~HasKey(Session.files, L)
               /\ Session.current_file =
                      IF Was.current_file = L THEN NoneV ELSE Was.current_file

\* a document that is not the current file has been deleted
C10_Witness ==
    \E L \in Labels :
        /\ DeletedLabel(L)
        /\ Was.current_file \notin {NoneV, L}
        /\ Session.current_file = Was.current_file
        /\ Session.files # <<>>

\* the backend call of the last event raised: upload, analyze or compare
BackendFailed ==
    /\ calls # <<>>
    /\ ~calls[Len(calls)].ok
    /\ calls[Len(calls)].op \in {"upload", "analyze", "compare"}

\* the backend call is the only failure of the last event
OnlyBackendFailed == BackendFailed /\ faults = before.faults + 1

\* C11: when the backend call of an event (upload, analyze or compare)
\* raises, the call was made exactly once and no other backend call is made
\* for the event; every other collaborator working, nothing is raised, the
\* last delivery is the error view with the back-to-menu button and the
\* conversation is in MAIN_MENU.
C11_BackendFailureSettles ==
    /\ BackendFailed => Len(calls) = 1
    /\ OnlyBackendFailed
           => /\ ~raised
              /\ Showed("error", BackKeyboard)
              /\ conv[ev.user] = MAIN_MENU

\* a comparison whose backend call raised
C11_Witness ==
    /\ OnlyBackendFailed
    /\ calls[1].op = "compare" /\ Len(calls[1].refs) = 2
    /\ Showed("error", BackKeyboard)
    /\ conv[ev.user] = MAIN_MENU

\* the ids of the messages the last handler sent
SentIds == {Sends(out)[i].msg : i \in 1..Len(Sends(out))}

\* C12: the first update of a user without session, whatever its kind,
\* is handled without raising when the transport works and leaves the user
\* with a session that has no files, no current_file, the language "en" and
\* no tracked message but those the handler sent.
C12_FirstEventCreatesSession ==
    (ev.kind # "" /\ ~HadSession /\ Clean)
        => /\ ~raised
           /\ ev.user \in DOMAIN user_data
           /\ Session.files = <<>>
           /\ Session.current_file = NoneV
           /\ Session.language = "en"
           /\ \A i \in 1..Len(Session.messages) : Session.messages[i] \in SentIds

\* the last call was a call of the gateway
GatewayCall == probe.fn \in {"send_safe_message", "edit_safe_message"}

\* attempt i of the last gateway call was made and the transport answered a
GaveAt(i, a) == i <= Len(probe.res.tries) /\ probe.arg[i] = a

\* C13: in send_safe_message and edit_safe_message an error of the verbatim
\* attempt or of the sanitized retry that is neither "Can't parse entities"
\* nor "Message is not modified" is raised to the caller and is the error of
\* the last attempt made; an attempt after the first is made only when the
\* attempt before it raised "Can't parse entities".
C13_OtherErrorsPropagate ==
    GatewayCall
        => /\ \A i \in 1..2 :
                  (GaveAt(i, "badreq") \/ GaveAt(i, "neterr"))
                      => Len(probe.res.tries) = i /\ probe.res.err = probe.arg[i]
           /\ \A i \in 2..Len(probe.res.tries) : probe.arg[i - 1] = "parse"

\* the verbatim attempt was rejected for its markup and the sanitized retry
\* went through
RetrySucceeded == GatewayCall /\ probe.arg[1] = "parse" /\ probe.arg[2] = "ok"

\* C14: when the verbatim attempt raises "Can't parse entities" and the
\* retry with the sanitized text and the parse mode succeeds, the gateway
\* has made exactly these two attempts in this order, returns the message of
\* the retry and raises nothing.
C14_SanitizedRetryReturns ==
    RetrySucceeded
        => /\ probe.res.tries = <<Try("verbatim", TRUE), Try("sanitized", TRUE)>>
           /\ probe.res.ret = "ok"
           /\ probe.res.got = 2
           /\ probe.res.err = ""

\* an edit whose sanitized retry went through
C14_Witness ==
    /\ RetrySucceeded /\ probe.fn = "edit_safe_message"
    /\ Len(probe.res.tries) = 2 /\ probe.res.got = 2

\* C15: "Message is not modified" raised by any attempt of edit_safe_message
\* (verbatim, sanitized retry, plain retry) ends the call there: None is
\* returned and nothing is raised.
C15_NotModifiedIsSuccess ==
    probe.fn = "edit_safe_message"
        => \A i \in 1..3 :
               GaveAt(i, "notmod")
                   => /\ Len(probe.res.tries) = i
                      /\ probe.res.ret = "none"
                      /\ probe.res.err = ""

\* the ids of the messages the last handler sent and did not delete again,
\* in the order it sent them
KeptSends ==
    LET kept == SelectSeq(out, LAMBDA m :
                    /\ m.op = "send"
                    /\ \A j \in 1..Len(out) :
                           ~(out[j].op = "delete" /\ out[j].msg = m.msg))
    IN  [i \in 1..Len(kept) |-> kept[i].msg]

\* the list lst ends with the entries of tail
EndsWith(lst, tail) ==
    /\ Len(tail) <= Len(lst)
    /\ SubSeq(lst, Len(lst) - Len(tail) + 1, Len(lst)) = tail

\* C16: the ids of the messages a handler (error_handler included) sent to
\* a user and did not delete again are, once the update is handled, the last
\* entries of the messages list of that user's session, in sending order.
C16_EverySendIsTracked ==
    (ev.kind # "" /\ KeptSends # <<>>)
        => /\ ev.user \in DOMAIN user_data
           /\ EndsWith(Session.messages, KeptSends)

\* the last call was a call of cleanup_messages on its own
CleanupCall == probe.fn = "cleanup_messages"

\* C17: when cleanup_messages(update, max_keep = k) returns, for any k >= 0,
\* the messages list of the session has at most k entries.
C17_AtMostKeepCount ==
    (CleanupCall /\ probe.res.exc = "")
        => Len(probe.res.messages) <= probe.arg.max_keep

\* C18: cleanup_messages on a list longer than max_keep calls delete_message
\* for each of the oldest entries beyond max_keep and for no other, and
\* leaves the last max_keep entries in their order, whether the deletions
\* succeed, raise BadRequest or raise another error.
C18_TruncatesWhateverDeletionsDo ==
    (CleanupCall /\ probe.arg.n > probe.arg.max_keep)
        => LET n == probe.arg.n
               k == probe.arg.max_keep
           IN  /\ probe.res.requests = n - k
               /\ probe.res.deleted = {i \in 1..(n - k) : probe.arg.ds[i] = "ok"}
               /\ probe.res.messages = [i \in 1..k |-> n - k + i]

\* the last call was a call of sanitize_html on its own
SanitizeCall == probe.fn = "sanitize_html"

\* C19: sanitize_html(sanitize_html(x)) = sanitize_html(x) for every text
\* x, texts with "&", quotes, "<" and ">" included.
C19_SanitizeIdempotent ==
    SanitizeCall => probe.res.twice = probe.res.once

\* the text given to sanitize_html is the opening tag open, plain text and
\* the closing tag close
Wraps(open, close) == probe.arg = <<open, "x", close>>

\* C20: a well-formed supported tag of the text given to sanitize_html
\* (<b>...</b>, <a href="...">...</a>) is in the text it returns, opening
\* and closing tag, around its content.
C20_SupportedTagsKept ==
    SanitizeCall
        => /\ Wraps("<b>", "</b>") => probe.res.once = "<b>x</b>"
           /\ Wraps("<a href=\"x\">", "</a>") => probe.res.once = "<a href=\"x\">x</a>"

\* the tags of the text t: "<", characters other than ">" (one at least), ">"
TagsOf(t) ==
    {SubSeq(t, i, j) : <<i, j>> \in
         {ij \in (1..Len(t)) \X (1..Len(t)) :
              /\ ij[2] > ij[1] + 1
              /\ CharAt(t, ij[1]) = "<"
              /\ \A k \in (ij[1] + 1)..(ij[2] - 1) : CharAt(t, k) # ">"
              /\ CharAt(t, ij[2]) = ">"}}

\* the tag tg opens or closes one of the tags Telegram supports
IsSupported(tg) ==
    \E i \in 1..Len(SupportedTags) :
        \/ tg = "<" \o SupportedTags[i] \o ">"
        \/ tg = "</" \o SupportedTags[i] \o ">"
        \/ StartsAt(tg, 1, "<" \o SupportedTags[i] \o " ")

\* C21: the text sanitize_html returns holds no tag but those of the
\* supported tags b, i, u, s, code, pre, a.
C21_NoUnsupportedTagLeft ==
    SanitizeCall => \A tg \in TagsOf(probe.res.once) : IsSupported(tg)

\* a text with a tag that is not supported, around plain text and a
\* character that stays
C21_Witness ==
    /\ SanitizeCall
    /\ probe.arg = <<"<div>", "x", "<">>
    /\ probe.res.once = "x<"

\* the last call was a call of split_and_send_long_message on its own
ChunkerCall == probe.fn = "split_and_send_long_message"

\* C22: every message split_and_send_long_message sends, title or part
\* label included, has at most max_length characters.
C22_MessagesWithinLimit ==
    ChunkerCall
        => \A i \in 1..Len(probe.res.messages) :
               TLen(probe.res.messages[i].text) <= max_length

\* the chunks one after the other
RECURSIVE Concatenated(_)
Concatenated(chunks) ==
    IF chunks = <<>> THEN <<>> ELSE Cat(Head(chunks), Concatenated(Tail(chunks)))

\* C23: the chunks of split_and_send_long_message, one after the other in
\* the order they are sent and without their labels, are the text.
C23_ChunksReproduceText ==
    ChunkerCall => Concatenated(probe.res.bodies) = probe.arg.text

\* the text and its title (with the two newlines between them) are shorter
\* than max_length
FitsWithTitle ==
    TLen(probe.arg.text) + (IF probe.arg.title # <<>> THEN TLen(probe.arg.title) + 2 ELSE 0)
        < max_length

\* C24: for a text that with its title is shorter than max_length exactly
\* one message is sent: the title, if any, two newlines and the whole text,
\* no part label, with the caller's reply_markup.
C24_ShortTextOneMessage ==
    (ChunkerCall /\ FitsWithTitle)
        => /\ Len(probe.res.messages) = 1
           /\ probe.res.messages[1].text =
                  IF probe.arg.title # <<>>
                  THEN Cat(Cat(probe.arg.title, ParSep), probe.arg.text)
                  ELSE probe.arg.text
           /\ probe.res.messages[1].reply_markup = probe.arg.reply_markup

\* a text of 3999 characters and a sentence end, sent without title and
\* with the back button
C24_Witness ==
    /\ ChunkerCall /\ FitsWithTitle
    /\ TLen(probe.arg.text) = 3999 /\ probe.arg.title = <<>>
    /\ probe.arg.reply_markup = BackKeyboard
    /\ Len(probe.res.messages) = 1

\* C25: for a text that is not empty split_and_send_long_message makes at
\* least one chunk and no empty chunk.
C25_NoEmptyChunk ==
    (ChunkerCall /\ probe.arg.text # <<>>)
        => /\ Len(probe.res.bodies) >= 1
           /\ \A i \in 1..Len(probe.res.bodies) : probe.res.bodies[i] # <<>>

\* the steps the dispatcher's handlers have made
Log == probe.res.log

\* the steps of the handler of update a made before the j-th step
StepsBefore(a, j) == {i \in 1..(j - 1) : Log[i].id = a}

InConversationBefore == ev.kind # "" /\ before.conv \in ConvStates

\* C27: an event that finds its user in a conversation, the cancel command
\* included, leaves the user in one of the states MAIN_MENU, UPLOADING,
\* ANALYZING, LANGUAGE_SELECTION.
C27_ConversationNeverEnds ==
    InConversationBefore => conv[ev.user] \in ConvStates

\* the last event found its user in a conversation whose state has no handler
\* for it (add_handlers), and no handler outside the conversation takes it
Unrecognized == InConversationBefore /\ ~Handled(before.conv, ev)

\* the bot reacted to the last event: it answered the button press, or it
\* sent, edited or deleted a message
Acknowledged == out # <<>>

\* C28: an event that is not recognized for the state of the conversation (a
\* button press in a state without a button handler, for one) is answered
\* with an acknowledgement and leaves the state of the conversation as it was.
C28_UnrecognizedAcknowledged ==
    Unrecognized => Acknowledged /\ conv[ev.user] = before.conv

\* the last event is a text message that found the conversation in UPLOADING
TextInUpload == ev.kind = "text" /\ before.conv = UPLOADING

\* C29: a text message in UPLOADING leaves the conversation in UPLOADING and
\* the files, the current file and the language of the session unchanged;
\* if no collaborator fails, the upload reminder with the back button is the
\* one message sent, and its id is the one entry added to the messages list.
C29_TextInUploadReminds ==
    TextInUpload =>
        /\ conv[ev.user] = UPLOADING
        /\ Session.files = Was.files
        /\ Session.current_file = Was.current_file
        /\ Session.language = Was.language
        /\ Session.compare_selection = Was.compare_selection
        /\ Clean => /\ Len(out) = 1
                    /\ out[1].op = "send"
                    /\ Showed("upload_reminder", BackKeyboard)
                    /\ Session.messages = Append(Was.messages, out[1].msg)

\* a text message in UPLOADING was answered with the reminder
C29_Witness ==
    /\ TextInUpload /\ Clean
    /\ Showed("upload_reminder", BackKeyboard)
    /\ conv[ev.user] = UPLOADING
    /\ Session.language = "vi"

\* the next event is the press of the back button of the upload reminder
\* that the last event, a text message in UPLOADING, was answered with
ReminderBackPressed ==
    /\ TextInUpload /\ Showed("upload_reminder", BackKeyboard)
    /\ ev'.kind = "callback" /\ ev'.user = ev.user
    /\ ev'.data = P_menu_back /\ ev'.msg = out[Len(out)].msg

\* the next event is the command /back of a user whose conversation is in
\* UPLOADING
BackTypedInUpload ==
    /\ ev'.kind = "command" /\ ev'.cmd = "back"
    /\ conv[ev'.user] = UPLOADING

\* the next event is handled without a failure of a collaborator
NextClean == faults' = faults

\* C30: back-navigation in UPLOADING, typed as /back or pressed on the back
\* button of the upload reminder, moves the conversation to MAIN_MENU.
C30_BackLeavesUpload ==
    [][((ReminderBackPressed \/ BackTypedInUpload) /\ NextClean)
           => conv'[ev'.user] = MAIN_MENU]_vars

\* the last event is a text message that found the conversation in ANALYZING
\* and the session with a current file
PromptInAnalyzing ==
    /\ ev.kind = "text" /\ before.conv = ANALYZING /\ HadSession
    /\ Was.current_file # NoneV

\* the call analyze(h, text) for the handle h of the current file and the
\* text of the message
PromptCall ==
    BackendCall("analyze", <<GetItem(Was.files, Was.current_file)>>,
                [kind |-> "user", lang |-> "", key |-> "", text |-> ev.data])

\* the processing message of the last event was sent
ProcessingSent == \E i \in 1..Len(out) : out[i].op = "send" /\ out[i].view = "processing"

\* the last event is /back or the press of analyze_back in ANALYZING
BackInAnalyzing ==
    /\ before.conv = ANALYZING
    /\ \/ ev.kind = "command" /\ ev.cmd = "back"
       \/ ev.kind = "callback" /\ ev.data = P_analyze_back

\* C31: a text message in ANALYZING with a current file L calls no backend
\* operation but analyze(handle of L, the text as typed), at most once, and
\* exactly once when the processing message could be sent; /back and the
\* analyze_back button call no backend operation and leave the conversation
\* in MAIN_MENU unless the handler raised.
C31_PromptAnalyzesOnce ==
    /\ PromptInAnalyzing
           => /\ HasKey(Was.files, Was.current_file)
              /\ calls \in {<<>>, <<PromptCall>>, <<Failing(PromptCall)>>}
              /\ ProcessingSent => calls # <<>>
    /\ BackInAnalyzing
           => /\ calls = <<>>
              /\ ~raised => conv[ev.user] = MAIN_MENU

\* the text was analysed and the result delivered
C31_Witness ==
    /\ PromptInAnalyzing
    /\ calls = <<PromptCall>>
    /\ Showed("follow_up", FollowUpKeyboard)

\* analyze_back was pressed in ANALYZING and the menu is shown
C31_WitnessBack ==
    /\ BackInAnalyzing /\ ev.kind = "callback"
    /\ conv[ev.user] = MAIN_MENU /\ calls = <<>>

\* the last event is a button press that found the conversation in
\* LANGUAGE_SELECTION
LanguagePress == ev.kind = "callback" /\ before.conv = LANGUAGE_SELECTION /\ HadSession

\* the language a payload chooses
Chosen(data) == IF data = P_lang_en THEN "en" ELSE "vi"

\* C32: a button press in LANGUAGE_SELECTION leaves files and current_file
\* unchanged; lang_en or lang_vi, handled without an exception, sets the
\* language chosen, shows the menu and leaves the conversation in MAIN_MENU;
\* any other button leaves the language unchanged.
C32_LanguageChoice ==
    LanguagePress =>
        /\ Session.files = Was.files
        /\ Session.current_file = Was.current_file
        /\ ev.data \notin {P_lang_en, P_lang_vi} => Session.language = Was.language
        /\ (ev.data \in {P_lang_en, P_lang_vi} /\ ~raised)
               => /\ Session.language = Chosen(ev.data)
                  /\ conv[ev.user] = MAIN_MENU
                  /\ Showed("menu", MenuKeyboard(Session))

\* Vietnamese was chosen by a user whose language was English
C32_Witness ==
    /\ LanguagePress /\ ev.data = P_lang_vi /\ ~raised
    /\ Was.language = "en" /\ Session.language = "vi"
    /\ conv[ev.user] = MAIN_MENU
    /\ Showed("menu", MenuKeyboard(Session))

\* a button that chooses no language was pressed in LANGUAGE_SELECTION
C32_WitnessOther ==
    /\ LanguagePress /\ ev.data \notin {P_lang_en, P_lang_vi} /\ ~raised
    /\ Session.language = Was.language

\* texts with one tag that is not supported, and what the entry of that tag
\* in unsupported_tags asks for: em becomes i around the same content, br a
\* newline, hr the line of dashes, img the placeholder
PolicyCases ==
    {<<<<"<em>", "x", "</em>">>, "<i>x</i>">>,
     <<<<"x", "<br>", "x">>, "x\nx">>,
     <<<<"x", "<hr>", "x">>, "x\n-----\nx">>,
     <<<<"x", "<img>", "x">>, "x[IMAGE]x">>}

\* C33: sanitize_html replaces a tag that is not supported as its entry in
\* unsupported_tags says: <em>x</em> becomes <i>x</i>, <br> a newline, <hr>
\* the line of dashes between newlines and <img> the placeholder [IMAGE].
C33_TagsReplacedByPolicy ==
    SanitizeCall => \A c \in PolicyCases : probe.arg = c[1] => probe.res.once = c[2]

\* chunk i of n as it is sent with its part label: the title, if any, with
\* the position i and the total n, two newlines, the chunk
LabelledPart(i, n) ==
    Cat(Cat(PartTitle(probe.arg.title, i, n), ParSep), probe.res.bodies[i])

\* chunk i as it is sent without part label
UnlabelledPart(i) ==
    IF probe.arg.title # <<>>
    THEN Cat(Cat(probe.arg.title, ParSep), probe.res.bodies[i])
    ELSE probe.res.bodies[i]

\* C34: split_and_send_long_message sends one message per chunk, in the
\* order of the chunks; the messages carry a part label exactly when there
\* is more than one chunk, and the label of the i-th of n is i/n, after the
\* title if there is one.
C34_LabelledWhenSeveral ==
    ChunkerCall =>
        /\ Len(probe.res.messages) = Len(probe.res.bodies)
        /\ \A i \in 1..Len(probe.res.messages) :
               probe.res.messages[i].text =
                   IF Len(probe.res.bodies) > 1
                   THEN LabelledPart(i, Len(probe.res.bodies))
                   ELSE UnlabelledPart(i)

\* the sessions of the users other than the sender of the last event
Others == DOMAIN before.ud \ {ev.user}

\* C35: the handling of an event of one user leaves the session of every
\* other user (files, current_file, language, compare_selection, messages)
\* as it was, and deletes none.
C35_OtherSessionsUntouched ==
    ev.kind # "" =>
        \A u \in Others : u \in DOMAIN user_data /\ user_data[u] = before.ud[u]

\* user u2 uploaded a document while user u1 had a session with another one
C35_Witness ==
    /\ ev.user = "u2" /\ Uploaded
    /\ "u1" \in Others
    /\ KeySet(before.ud["u1"].files) = {LabelA}
    /\ KeySet(user_data["u2"].files) = {LabelB}
    /\ user_data["u1"] = before.ud["u1"]

\* the call upload(content) of the backend
UploadCall == BackendCall("upload", <<>>, NoPrompt)

\* the backend took the document of the last event and returned a handle
UploadSucceeded == ev.kind = "document" /\ HadSession /\ InSeq(UploadCall, calls)

\* the entries of files d under the labels other than k
OtherEntries(d, k) == SelectSeq(d, LAMBDA e : e.name # k)

\* C36: after an upload that the backend accepted, the uploaded label is the
\* current_file, whatever it was before, and files maps the label to the new
\* handle; the other entries are unchanged, a label that was in files
\* already keeps its one entry, and the only backend call is the upload:
\* the old handle is not deleted at the backend.
C36_UploadReplacesHandle ==
    UploadSucceeded =>
        /\ Session.current_file = ev.data
        /\ HasKey(Session.files, ev.data)
        /\ GetItem(Session.files, ev.data) = before.nh
        /\ OtherEntries(Session.files, ev.data) = OtherEntries(Was.files, ev.data)
        /\ Len(Session.files) = Len(Was.files) + (IF HasKey(Was.files, ev.data) THEN 0 ELSE 1)
        /\ calls = <<UploadCall>>

\* a label of the session that was not the current file was uploaded again
C36_Witness ==
    /\ UploadSucceeded
    /\ HasKey(Was.files, ev.data)
    /\ Was.current_file # ev.data /\ Was.current_file # NoneV
    /\ GetItem(Was.files, ev.data) # GetItem(Session.files, ev.data)
    /\ Len(Session.files) = Len(Was.files)
    /\ Session.current_file = ev.data

\* the last event is /start of a user who had a session
Restart == ev.kind = "command" /\ ev.cmd = "start" /\ HadSession

\* C37: /start of a user who has a session leaves files, current_file,
\* language and compare_selection of the session as they were.
C37_RestartKeepsSession ==
    Restart =>
        /\ Session.files = Was.files
        /\ Session.current_file = Was.current_file
        /\ Session.language = Was.language
        /\ Session.compare_selection = Was.compare_selection

\* /start was sent by a user with documents, a current file and a selection
\* for the comparison, and the menu is shown
C37_Witness ==
    /\ Restart /\ ~raised
    /\ Len(Was.files) >= 2 /\ Was.current_file # NoneV
    /\ Was.compare_selection # <<>>
    /\ Session.files = Was.files
    /\ Session.compare_selection = Was.compare_selection
    /\ conv[ev.user] = MAIN_MENU

\* /start was sent by a user whose language is Vietnamese
C37_WitnessLanguage == Restart /\ Was.language = "vi" /\ Session.language = "vi"

\* the text a is what is left of the text b when some of its characters are
\* taken out: the characters of a are characters of b, in the order of b,
\* none of them used twice
RECURSIVE Scattered(_, _)
Scattered(a, b) ==
    IF a = <<>> THEN TRUE
    ELSE IF b = <<>> THEN FALSE
    ELSE IF a[1].c # b[1].c THEN Scattered(a, Tail(b))
    ELSE IF a[1].n = b[1].n THEN Scattered(Tail(a), Tail(b))
    ELSE IF a[1].n < b[1].n
    THEN Scattered(Tail(a), <<Run(b[1].c, b[1].n - a[1].n)>> \o Tail(b))
    ELSE Scattered(<<Run(a[1].c, a[1].n - b[1].n)>> \o Tail(a), Tail(b))

\* the runs of the chunks one after the other, a chunk never merged with the
\* next one
RECURSIVE Flattened(_)
Flattened(chunks) ==
    IF chunks = <<>> THEN <<>> ELSE Head(chunks) \o Flattened(Tail(chunks))

\* C38: the chunks of split_and_send_long_message, taken in the order they
\* are sent, are made of characters of the text in the order of the text,
\* no character of the text emitted twice, also when a sentence longer than
\* max_length is cut after shorter sentences have been packed.
C38_NothingEmittedTwice ==
    ChunkerCall => Scattered(Flattened(probe.res.bodies), probe.arg.text)

\* the last event is the press of a button that leads to show_menu only
MenuPress == Press /\ HadSession /\ ev.data \in {P_menu_back, P_analyze_back}

\* the handler of the last event deleted the message whose button was pressed
PressedDeleted == \E i \in 1..Len(out) : out[i].op = "delete" /\ out[i].msg = ev.msg

\* C39: when a button press leads to show_menu and no transport call fails,
\* the menu is the last delivery; if the cleanup of show_menu deleted the
\* pressed message, the menu is sent as a new message and the id of that
\* message is the last entry of the messages list.
C39_MenuDelivered ==
    (MenuPress /\ Clean) =>
        /\ Showed("menu", MenuKeyboard(Session))
        /\ conv[ev.user] = MAIN_MENU
        /\ PressedDeleted =>
               /\ out[Len(out)].op = "send"
               /\ Session.messages # <<>>
               /\ Session.messages[Len(Session.messages)] = out[Len(out)].msg
        /\ ~PressedDeleted => out[Len(out)] = Msg("edit", "menu", MenuKeyboard(Session), ev.msg)

\* the pressed message was deleted by the cleanup and the menu sent anew
C39_Witness ==
    /\ MenuPress /\ Clean /\ PressedDeleted
    /\ Showed("menu", MenuKeyboard(Session))
    /\ out[Len(out)].op = "send"
    /\ Session.messages[Len(Session.messages)] = out[Len(out)].msg

\* the last call looked up the identifiers of the names of a dictionary
IdentifiersCall == probe.fn = "_get_filename_from_id"

\* C40: for every files dictionary and every name L in it,
\* _get_filename_from_id(_safe_callback_data(L)) is L, also for names longer
\* than 32 characters and names with a common prefix.
C40_IdentifiersRoundTrip ==
    IdentifiersCall => \A f \in KeySet(probe.arg) : probe.res[f] = f

====
